---- MODULE Spec2Model ----
(***************************************************************************)
(* Multi-group token tracking and alert engine.                            *)
(*                                                                         *)
(* The model follows token_tracker_enhanced.py (the tracker main.py        *)
(* imports), database.py (the tokens table) and config.py.  Market caps    *)
(* and prices are integers; times are whole seconds.  The float tests of   *)
(* the source (current / baseline >= level, (current - baseline) /         *)
(* baseline * 100 <= level) are written in their cross-multiplied integer  *)
(* form, which agrees with the float result on every value used here.      *)
(***************************************************************************)
EXTENDS Integers, FiniteSets, Sequences, Bags, TLC

(***************************************************************************)
(* Bounds of the exploration.                                              *)
(***************************************************************************)
MaxTicks == 3
MaxTime == 90
MaxRemovals == 1
MaxLoops == 3

(***************************************************************************)
(* Program constants.                                                      *)
(***************************************************************************)
ALERT_MULTIPLIERS ==
    <<2, 3, 5, 8, 10, 15, 20, 25, 30, 35, 40, 45, 50, 55, 60, 65, 70, 75,
      80, 85, 90, 95, 100>>
LOSS_THRESHOLDS == <<-30, -50, -70, -80, -85, -95>>
AUTO_REMOVE_THRESHOLD == -80
RUG_DETECTION_THRESHOLD == -90
ALERT_COOLDOWN == 60
TICK_SLEEP == 5
LIQUIDITY_FLOOR == 100
SMALL_CAP_FLOOR == 1000
CONFIRMATIONS_NEEDED == 3

(***************************************************************************)
(* Inputs: the contracts and chats of the exploration, the readings the    *)
(* price provider may return, and the time that may pass in one step.      *)
(***************************************************************************)
Contracts == {"X", "Y", "Z"}
Groups == {"A", "B"}
Families == {"multiplier", "loss", "rug"}
Rows == Groups \X Contracts

NoData == [market_cap |-> -1, price |-> -1]
MarketCaps == {0, 100, 250, 2000, 3000}
PriceOf(m) == m \div 50
Reading(m) == [market_cap |-> m, price |-> PriceOf(m)]
\* What the provider may answer for a contract: X moves over every market cap,
\* Y over two of them, Z stays near the market cap of its registration; every
\* call may fail.
Readings(c) ==
    IF c = "X" THEN {Reading(m) : m \in MarketCaps} \cup {NoData}
    ELSE IF c = "Y" THEN {Reading(250), Reading(2000), NoData}
    ELSE {Reading(1050), Reading(1200), Reading(900), NoData}
Delay == 30

Range(s) == {s[i] : i \in DOMAIN s}
Max(a, b) == IF a >= b THEN a ELSE b
Min(a, b) == IF a <= b THEN a ELSE b

VARIABLES
    tokens,                    \* the tokens table: (contract, chat_id) -> row
    tracking_tokens_by_group,  \* the cache, flattened: (chat_id, contract) -> token_data
    sent_alerts,               \* (contract, chat_id) -> set of fired multipliers
    last_alert_time,           \* (contract, chat_id, alert_type) -> time
    rug_alerts_sent,           \* set of (contract, chat_id)
    pc,                        \* position of the tracking loop
    update_tasks,              \* contract -> state of its update task in this tick
    alert_tasks,               \* rows whose alert task of this tick has not run yet
    wake_at,                   \* time at which the loop's sleep ends
    now,                       \* the clock
    tick,                      \* number of ticks started
    api_calls,                 \* contract -> provider calls in the current tick
    sent_messages,             \* bag of messages handed to bot.send_message
    removals,                  \* the /remove commands served, with the tick of each
    last_check,                \* row -> what its last alert check saw
    suppressed,                \* levels that were crossed while on cooldown
    is_running,                \* TokenTracker.is_running
    loops,                     \* the start_tracking coroutines: id -> position
    add_token_calls,           \* the calls of add_token served, with what each returned
    add_token_tasks,           \* the calls of add_token, step by step, in start order
    delivery_errors,           \* the messages for which bot.send_message raised
    groups                     \* the groups table: chat_id -> row

\* What the ticks of one loop read and write.
tick_vars == <<tokens, tracking_tokens_by_group, sent_alerts, last_alert_time,
               rug_alerts_sent, pc, update_tasks, alert_tasks, wake_at, now, tick,
               api_calls, sent_messages, removals, last_check, suppressed>>

\* What start_tracking and stop_tracking read and write.  The specifications
\* of one loop's ticks follow a single coroutine with pc and leave these two
\* as constructed; SpecLifecycle follows the coroutines and leaves the ticks'
\* data alone.
lifecycle_vars == <<is_running, loops>>

\* What the calls of add_token leave behind for the caller.
registration_vars == <<add_token_calls, add_token_tasks>>

\* What the dispatcher leaves behind when a delivery fails.
delivery_vars == <<delivery_errors>>

\* The groups table of the store.
group_vars == <<groups>>

vars == <<tick_vars, lifecycle_vars, registration_vars, delivery_vars, group_vars>>

(***************************************************************************)
(* The tokens table.                                                       *)
(***************************************************************************)
DbRow(mcap, base, liq) ==
    [initial_mcap |-> mcap, initial_price |-> PriceOf(mcap),
     current_mcap |-> mcap, current_price |-> PriceOf(mcap),
     lowest_mcap |-> mcap, highest_mcap |-> mcap,
     confirmed_scan_mcap |-> base, scan_confirmation_count |-> CONFIRMATIONS_NEEDED,
     liquidity_usd |-> liq, is_active |-> TRUE,
     multipliers_alerted |-> {}, loss_alerts_sent |-> <<>>, user_notes |-> <<>>]

\* Stores the bot may find at start.  X is tracked by A and by B; B may have
\* registered it at another market cap and without liquidity.  Y, when it is
\* there, is tracked by A only and has no liquidity.
StoresOfX ==
    {[k \in {<<"X", "A">>, <<"X", "B">>} |->
        IF k = <<"X", "A">> THEN DbRow(1000, 1000, 500)
        ELSE DbRow(xb, xb, IF xb = 1000 THEN 500 ELSE 0)] : xb \in {1000, 500}}

StoreOfXY ==
    [k \in {<<"X", "A">>, <<"X", "B">>, <<"Y", "A">>} |->
        IF k = <<"Y", "A">> THEN DbRow(1000, 1000, 0) ELSE DbRow(1000, 1000, 500)]

InitialStores == StoresOfX \cup {StoreOfXY}

\* A query without WHERE t.is_active = TRUE.
AllKeys(db) == DOMAIN db

ActiveKeys(db) == {k \in DOMAIN db : db[k].is_active}

\* The tracker as constructed: nothing cached, nothing fired, loop not started.
TrackerInit ==
    /\ tracking_tokens_by_group = [k \in {} |-> <<>>]
    /\ sent_alerts = [k \in {} |-> {}]
    /\ last_alert_time = [k \in {} |-> 0]
    /\ rug_alerts_sent = {}
    /\ pc = "start"
    /\ update_tasks = [c \in {} |-> <<>>]
    /\ alert_tasks = {}
    /\ wake_at = 0
    /\ now = 0
    /\ tick = 0
    /\ api_calls = [c \in Contracts |-> 0]
    /\ sent_messages = EmptyBag
    /\ removals = <<>>
    /\ last_check = [k \in {} |-> <<>>]
    /\ suppressed = {}
    /\ is_running = FALSE
    /\ loops = [l \in 1..MaxLoops |-> "idle"]
    /\ add_token_calls = <<>>
    /\ add_token_tasks = <<>>
    /\ delivery_errors = {}
    /\ groups = [g \in {} |-> <<>>]

Init ==
    /\ tokens \in InitialStores
    /\ TrackerInit

Put(f, k, v) == [x \in DOMAIN f \cup {k} |-> IF x = k THEN v ELSE f[x]]

(***************************************************************************)
(* TokenTracker._load_tokens_by_group and the entry of start_tracking.     *)
(***************************************************************************)
TokenData(t) ==
    [initial_price |-> t.initial_price,
     initial_mcap |-> t.initial_mcap,
     confirmed_scan_mcap |->
         IF t.confirmed_scan_mcap # 0 THEN t.confirmed_scan_mcap ELSE t.initial_mcap,
     current_price |-> IF t.current_price # 0 THEN t.current_price ELSE t.initial_price,
     current_mcap |-> IF t.current_mcap # 0 THEN t.current_mcap ELSE t.initial_mcap,
     highest_mcap |-> IF t.highest_mcap # 0 THEN t.highest_mcap ELSE t.initial_mcap,
     lowest_mcap |-> IF t.lowest_mcap # 0 THEN t.lowest_mcap ELSE t.initial_mcap,
     loss_alerts_sent |-> t.loss_alerts_sent]

StartTracking ==
    /\ pc = "start"
    /\ tracking_tokens_by_group' =
           [k \in {<<d[2], d[1]>> : d \in ActiveKeys(tokens)} |->
               TokenData(tokens[<<k[2], k[1]>>])]
    /\ sent_alerts' =
           [d \in DOMAIN sent_alerts \cup ActiveKeys(tokens) |->
               (IF d \in DOMAIN sent_alerts THEN sent_alerts[d] ELSE {})
               \cup (IF d \in ActiveKeys(tokens) THEN tokens[d].multipliers_alerted ELSE {})]
    /\ pc' = "sleep"
    /\ wake_at' = now
    /\ UNCHANGED <<tokens, last_alert_time, rug_alerts_sent, update_tasks,
                   alert_tasks, now, tick, api_calls, sent_messages, suppressed, removals, last_check>>
    /\ UNCHANGED <<lifecycle_vars, registration_vars, delivery_vars, group_vars>>

(***************************************************************************)
(* TokenTracker._check_all_groups: the update phase of a tick.             *)
(***************************************************************************)
AllUniqueTokens == {k[2] : k \in DOMAIN tracking_tokens_by_group}

TickStart ==
    /\ pc = "sleep"
    /\ now >= wake_at
    /\ tick < MaxTicks
    /\ tick' = tick + 1
    /\ api_calls' = [c \in Contracts |-> 0]
    /\ update_tasks' = [c \in AllUniqueTokens |-> [stage |-> "fetching", info |-> NoData]]
    /\ pc' = IF AllUniqueTokens = {} THEN "sweep" ELSE "update"
    /\ UNCHANGED <<tokens, tracking_tokens_by_group, sent_alerts, last_alert_time,
                   rug_alerts_sent, alert_tasks, wake_at, now, sent_messages,
                   suppressed, removals, last_check>>
    /\ UNCHANGED <<lifecycle_vars, registration_vars, delivery_vars, group_vars>>

\* A test that lets a market cap of zero through: market_cap >= 0.
ValidInfoOrZero(info) == info # NoData /\ info.market_cap >= 0

\* _update_single_token_realtime, up to the provider's answer.
ValidInfo(info) == info # NoData /\ info.market_cap > 0

GetTokenInfo(c, info) ==
    /\ pc = "update"
    /\ c \in DOMAIN update_tasks
    /\ update_tasks[c].stage = "fetching"
    /\ api_calls' = [api_calls EXCEPT ![c] = @ + 1]
    /\ update_tasks' = [update_tasks EXCEPT ![c] =
           IF ValidInfo(info) THEN [stage |-> "writing", info |-> info]
           ELSE [stage |-> "False", info |-> NoData]]
    /\ UNCHANGED <<tokens, tracking_tokens_by_group, sent_alerts, last_alert_time,
                   rug_alerts_sent, pc, alert_tasks, wake_at, now, tick,
                   sent_messages, suppressed, removals, last_check>>
    /\ UNCHANGED <<lifecycle_vars, registration_vars, delivery_vars, group_vars>>

\* An update whose baseline follows for one observation more:
\* scan_count <= 3 in place of scan_count < 3.
UpdatedRowFollowingLonger(t, current_mcap, current_price) ==
    [t EXCEPT
        !.current_mcap = current_mcap,
        !.current_price = current_price,
        !.lowest_mcap = Min(t.lowest_mcap, current_mcap),
        !.highest_mcap = Max(t.highest_mcap, current_mcap),
        !.confirmed_scan_mcap =
            IF t.scan_confirmation_count <= CONFIRMATIONS_NEEDED THEN current_mcap
            ELSE t.confirmed_scan_mcap,
        !.scan_confirmation_count =
            IF t.scan_confirmation_count <= CONFIRMATIONS_NEEDED
            THEN t.scan_confirmation_count + 1 ELSE t.scan_confirmation_count]

\* An update that keeps the lowest market cap it finds.
UpdatedRowKeepingLowest(t, current_mcap, current_price) ==
    [t EXCEPT
        !.current_mcap = current_mcap,
        !.current_price = current_price,
        !.highest_mcap = Max(t.highest_mcap, current_mcap)]

\* An update whose highest market cap is the reading.
UpdatedRowHighestIsCurrent(t, current_mcap, current_price) ==
    [t EXCEPT
        !.current_mcap = current_mcap,
        !.current_price = current_price,
        !.lowest_mcap = Min(t.lowest_mcap, current_mcap),
        !.highest_mcap = current_mcap]

\* Database.update_token_price: every active row of the contract.
UpdatedRow(t, current_mcap, current_price) ==
    [t EXCEPT
        !.current_mcap = current_mcap,
        !.current_price = current_price,
        !.lowest_mcap = Min(IF t.lowest_mcap # 0 THEN t.lowest_mcap ELSE current_mcap,
                            current_mcap),
        !.highest_mcap = Max(IF t.highest_mcap # 0 THEN t.highest_mcap ELSE current_mcap,
                             current_mcap),
        !.confirmed_scan_mcap =
            IF t.scan_confirmation_count < CONFIRMATIONS_NEEDED THEN current_mcap
            ELSE IF t.confirmed_scan_mcap # 0 THEN t.confirmed_scan_mcap
            ELSE current_mcap,
        !.scan_confirmation_count =
            IF t.scan_confirmation_count < CONFIRMATIONS_NEEDED
            THEN t.scan_confirmation_count + 1 ELSE t.scan_confirmation_count]

UpdateTokenPrice(c, ok) ==
    /\ pc = "update"
    /\ c \in DOMAIN update_tasks
    /\ update_tasks[c].stage = "writing"
    /\ IF ok
       THEN /\ tokens' = [k \in DOMAIN tokens |->
                   IF k[1] = c /\ tokens[k].is_active
                   THEN UpdatedRow(tokens[k], update_tasks[c].info.market_cap,
                                   update_tasks[c].info.price)
                   ELSE tokens[k]]
            /\ update_tasks' = [update_tasks EXCEPT ![c].stage = "written"]
       ELSE \* the write raises: the except clause returns False and
            \* _update_token_across_all_groups is not reached
            /\ tokens' = tokens
            /\ update_tasks' = [update_tasks EXCEPT ![c].stage = "False"]
    /\ UNCHANGED <<tracking_tokens_by_group, sent_alerts, last_alert_time,
                   rug_alerts_sent, pc, alert_tasks, wake_at, now, tick,
                   api_calls, sent_messages, suppressed, removals, last_check>>
    /\ UNCHANGED <<lifecycle_vars, registration_vars, delivery_vars, group_vars>>

\* An update that stops after the first group that tracks the contract.
FirstGroupTracking(c) ==
    {g \in Groups : /\ <<g, c>> \in DOMAIN tracking_tokens_by_group
                     /\ (g = "A" \/ <<"A", c>> \notin DOMAIN tracking_tokens_by_group)}

\* _update_token_across_all_groups: no suspension point inside.
GroupsTracking(c) == {g \in Groups : <<g, c>> \in DOMAIN tracking_tokens_by_group}

UpdateTokenAcrossAllGroups(c) ==
    /\ pc = "update"
    /\ c \in DOMAIN update_tasks
    /\ update_tasks[c].stage = "written"
    /\ LET new_mcap == update_tasks[c].info.market_cap
           new_price == update_tasks[c].info.price
       IN tracking_tokens_by_group' =
              [k \in DOMAIN tracking_tokens_by_group |->
                  IF k[2] = c /\ k[1] \in GroupsTracking(c)
                  THEN [tracking_tokens_by_group[k] EXCEPT
                           !.current_mcap = new_mcap,
                           !.current_price = new_price,
                           !.highest_mcap = Max(@, new_mcap),
                           !.lowest_mcap = Min(@, new_mcap)]
                  ELSE tracking_tokens_by_group[k]]
    /\ update_tasks' = [update_tasks EXCEPT ![c].stage = "True"]
    /\ UNCHANGED <<tokens, sent_alerts, last_alert_time, rug_alerts_sent, pc,
                   alert_tasks, wake_at, now, tick, api_calls, sent_messages,
                   suppressed, removals, last_check>>
    /\ UNCHANGED <<lifecycle_vars, registration_vars, delivery_vars, group_vars>>

(***************************************************************************)
(* The alert phase: _check_alerts_for_all_updated_tokens starts one task   *)
(* per cached row once asyncio.gather has returned every update task.      *)
(***************************************************************************)
\* An alert phase that starts as soon as one update task has returned.
AnyUpdateDone == \E c \in DOMAIN update_tasks : update_tasks[c].stage \in {"True", "False"}

AllUpdatesDone == \A c \in DOMAIN update_tasks : update_tasks[c].stage \in {"True", "False"}

StartAlertChecks ==
    /\ pc = "update"
    /\ AllUpdatesDone
    /\ alert_tasks' = DOMAIN tracking_tokens_by_group
    /\ pc' = "alerts"
    /\ UNCHANGED <<tokens, tracking_tokens_by_group, sent_alerts, last_alert_time,
                   rug_alerts_sent, update_tasks, wake_at, now, tick, api_calls,
                   sent_messages, suppressed, removals, last_check>>
    /\ UNCHANGED <<lifecycle_vars, registration_vars, delivery_vars, group_vars>>

\* A cooldown that is never consulted.
NeverOnCooldown(contract_address, chat_id, alert_type) == FALSE

\* A cooldown that, once set, never elapses.
CooldownNeverExpires(contract_address, chat_id, alert_type) ==
    <<contract_address, chat_id, alert_type>> \in DOMAIN last_alert_time

\* _is_alert_on_cooldown
IsAlertOnCooldown(contract_address, chat_id, alert_type) ==
    IF <<contract_address, chat_id, alert_type>> \notin DOMAIN last_alert_time
    THEN FALSE
    ELSE now - last_alert_time[<<contract_address, chat_id, alert_type>>] < ALERT_COOLDOWN

\* A cooldown that is never recorded.
NoCooldownKeys(contract_address, chat_id, alert_type) == {}

\* A cooldown recorded for the pair, whatever the family.
CooldownKeysOfPair(contract_address, chat_id, alert_type) ==
    {<<contract_address, chat_id, f>> : f \in Families}

\* The keys whose timestamp _set_alert_cooldown writes.
CooldownKeys(contract_address, chat_id, alert_type) ==
    {<<contract_address, chat_id, alert_type>>}

\* A dispatcher that never sets a cooldown.
SetNoAlertCooldown(lat, keys) == lat

SetAlertCooldown(lat, keys) ==
    [k \in DOMAIN lat \cup keys |-> IF k \in keys THEN now ELSE lat[k]]

Baseline(td) ==
    IF td.confirmed_scan_mcap # 0 THEN td.confirmed_scan_mcap ELSE td.initial_mcap

\* multiplier >= alert_multiplier, with multiplier = current_mcap / baseline_mcap
MultiplierReached(td, alert_multiplier) ==
    td.current_mcap >= alert_multiplier * Baseline(td)

\* A loss test that misses the exact level.
LossReachedStrictly(td, threshold) ==
    (td.current_mcap - Baseline(td)) * 100 < threshold * Baseline(td)

\* loss_percentage <= threshold, with
\* loss_percentage = (current_mcap - baseline_mcap) / baseline_mcap * 100
LossReached(td, threshold) ==
    (td.current_mcap - Baseline(td)) * 100 <= threshold * Baseline(td)

\* A loop that does not look at the levels already sent.
MultipliersToSendAgain(td, sent) ==
    {m \in Range(ALERT_MULTIPLIERS) : MultiplierReached(td, m)}

\* A loop that sends the highest level reached only.
HighestMultiplierOnly(td, sent) ==
    {m \in Range(ALERT_MULTIPLIERS) :
        /\ MultiplierReached(td, m) /\ m \notin sent
        /\ \A n \in Range(ALERT_MULTIPLIERS) : MultiplierReached(td, n) => n <= m}

\* The levels the loop of _check_multiplier_alerts_for_group sends.
MultipliersToSend(td, sent) ==
    {m \in Range(ALERT_MULTIPLIERS) : MultiplierReached(td, m) /\ m \notin sent}

\* The levels the loop of _check_loss_alerts_for_group sends, in list order.
LossesToSend(td, sent_loss_alerts) ==
    SelectSeq(LOSS_THRESHOLDS,
              LAMBDA t : LossReached(td, t) /\ t \notin Range(sent_loss_alerts))

Message(chat_id, contract_address, family, level) ==
    [chat_id |-> chat_id, contract |-> contract_address, family |-> family,
     level |-> level, at |-> now, tick |-> tick]

\* A tracker that keeps no record of the rug alerts it sent.
RugAlertNeverSent(rug_alert_key) == FALSE

\* if rug_alert_key in self.rug_alerts_sent: return
RugAlertSent(rug_alert_key) == rug_alert_key \in rug_alerts_sent

\* _check_all_alerts_for_token_in_group: multiplier, loss, then rug detection.
\* raises says whether bot.send_message raises for the messages of this check;
\* _send_multiplier_alert, _send_loss_alert and _send_rug_detection_alert log
\* the exception and return.
CheckAllAlertsSending(chat_id, contract_address, raises) ==
    /\ pc = "alerts"
    /\ <<chat_id, contract_address>> \in alert_tasks
    /\ LET td == tracking_tokens_by_group[<<chat_id, contract_address>>]
           key == <<contract_address, chat_id>>
           sent == IF key \in DOMAIN sent_alerts THEN sent_alerts[key] ELSE {}
           mult_cd == IsAlertOnCooldown(contract_address, chat_id, "multiplier")
           loss_cd == IsAlertOnCooldown(contract_address, chat_id, "loss")
           rug_cd == IsAlertOnCooldown(contract_address, chat_id, "rug")
           mult_run == Baseline(td) > 0 /\ ~mult_cd
           loss_run == Baseline(td) > 0 /\ ~loss_cd
           mults == IF mult_run THEN MultipliersToSend(td, sent) ELSE {}
           losses == IF loss_run THEN LossesToSend(td, td.loss_alerts_sent) ELSE <<>>
           rug == /\ Baseline(td) > 0
                  /\ LossReached(td, RUG_DETECTION_THRESHOLD)
                  /\ ~RugAlertSent(key)
                  /\ ~rug_cd
           new_sent == sent \cup mults
           new_loss == td.loss_alerts_sent \o losses
           cd_keys ==
               (IF mults # {} THEN CooldownKeys(contract_address, chat_id, "multiplier")
                ELSE {})
               \cup (IF losses # <<>> THEN CooldownKeys(contract_address, chat_id, "loss")
                     ELSE {})
               \cup (IF rug THEN CooldownKeys(contract_address, chat_id, "rug") ELSE {})
       IN /\ sent_alerts' = IF mult_run THEN Put(sent_alerts, key, new_sent)
                            ELSE sent_alerts
          /\ tracking_tokens_by_group' =
                 [tracking_tokens_by_group EXCEPT
                     ![<<chat_id, contract_address>>].loss_alerts_sent = new_loss]
          \* update_multipliers_alerted / update_loss_alerts_sent:
          \* UPDATE tokens ... WHERE contract_address = ?
          /\ tokens' = [k \in DOMAIN tokens |->
                 IF k[1] = contract_address
                 THEN [tokens[k] EXCEPT
                          !.multipliers_alerted = IF mults # {} THEN new_sent ELSE @,
                          !.loss_alerts_sent = IF losses # <<>> THEN new_loss ELSE @]
                 ELSE tokens[k]]
          /\ rug_alerts_sent' = IF rug THEN rug_alerts_sent \cup {key} ELSE rug_alerts_sent
          /\ last_alert_time' = SetAlertCooldown(last_alert_time, cd_keys)
          /\ sent_messages' = sent_messages
                 (+) SetToBag({Message(chat_id, contract_address, "multiplier", m) :
                                  m \in mults})
                 (+) SetToBag({Message(chat_id, contract_address, "loss", t) :
                                  t \in Range(losses)})
                 (+) SetToBag(IF rug
                              THEN {Message(chat_id, contract_address, "rug",
                                            RUG_DETECTION_THRESHOLD)}
                              ELSE {})
          /\ suppressed' = suppressed
                 \cup (IF Baseline(td) > 0 /\ mult_cd
                       THEN {<<contract_address, chat_id, "multiplier", m>> :
                                m \in {x \in Range(ALERT_MULTIPLIERS) :
                                          MultiplierReached(td, x) /\ x \notin sent}}
                       ELSE {})
                 \cup (IF Baseline(td) > 0 /\ loss_cd
                       THEN {<<contract_address, chat_id, "loss", t>> :
                                t \in {x \in Range(LOSS_THRESHOLDS) :
                                          LossReached(td, x)
                                          /\ x \notin Range(td.loss_alerts_sent)}}
                       ELSE {})
          /\ last_check' = Put(last_check, <<chat_id, contract_address>>,
                 [current_mcap |-> td.current_mcap, multiplier_run |-> mult_run,
                  loss_run |-> loss_run, tick |-> tick])
    /\ delivery_errors' =
           IF raises
           THEN delivery_errors \cup (BagToSet(sent_messages') \ BagToSet(sent_messages))
           ELSE delivery_errors
    /\ alert_tasks' = alert_tasks \ {<<chat_id, contract_address>>}
    /\ UNCHANGED <<pc, update_tasks, wake_at, now, tick, api_calls, removals>>
    /\ UNCHANGED <<lifecycle_vars, registration_vars, group_vars>>

\* The check of a row whose messages are all delivered.
CheckAllAlerts(chat_id, contract_address) ==
    CheckAllAlertsSending(chat_id, contract_address, FALSE)

(***************************************************************************)
(* TokenTracker._auto_remove_rugged_tokens, then the loop's sleep.         *)
(***************************************************************************)
\* A WHERE clause without is_active = TRUE.
RuggedWhetherActiveOrNot(t, threshold) ==
    /\ t.current_mcap > 0
    /\ t.confirmed_scan_mcap > 0
    /\ (t.current_mcap - t.confirmed_scan_mcap) * 100 <= threshold * t.confirmed_scan_mcap

\* A WHERE clause with loss_percentage < ? in place of <= ?.
RuggedStrictly(t, threshold) ==
    /\ t.is_active
    /\ t.current_mcap > 0
    /\ t.confirmed_scan_mcap > 0
    /\ (t.current_mcap - t.confirmed_scan_mcap) * 100 < threshold * t.confirmed_scan_mcap

\* The WHERE clause of Database.auto_remove_rugged_tokens.
Rugged(t, threshold) ==
    /\ t.is_active
    /\ t.current_mcap > 0
    /\ \/ /\ t.confirmed_scan_mcap > 0
          /\ (t.current_mcap - t.confirmed_scan_mcap) * 100
                 <= threshold * t.confirmed_scan_mcap
       \/ /\ t.confirmed_scan_mcap = 0
          /\ t.initial_mcap > 0
          /\ (t.current_mcap - t.initial_mcap) * 100 <= threshold * t.initial_mcap

\* A WHERE clause with current_mcap <= 1000 in place of < 1000.
ZeroLiquidityUpToFloor(t) ==
    /\ t.is_active
    /\ t.liquidity_usd < LIQUIDITY_FLOOR
    /\ t.current_mcap <= SMALL_CAP_FLOOR

\* The WHERE clause of Database.check_zero_liquidity_tokens.
ZeroLiquidity(t) ==
    /\ t.is_active
    /\ t.liquidity_usd < LIQUIDITY_FLOOR
    /\ t.current_mcap < SMALL_CAP_FLOOR

\* A loop that does not wait for the alert checks it started.
AlertChecksStarted == TRUE

\* alert_results = await asyncio.gather(*alert_tasks, return_exceptions=True)
AlertChecksReturned == alert_tasks = {}

\* A loop whose sleep never ends: no tick follows the one that has run.
NoNextWake == MaxTime + 1

\* await asyncio.sleep(5) at the end of the loop body, and the same sleep in
\* the except clause of the loop: the next tick is due TICK_SLEEP later.
NextWake == now + TICK_SLEEP

AutoRemoveRuggedTokens ==
    /\ \/ pc = "sweep"
       \/ pc = "alerts" /\ AlertChecksReturned
    /\ LET removed == {k \in DOMAIN tokens : Rugged(tokens[k], AUTO_REMOVE_THRESHOLD)}
           db1 == [k \in DOMAIN tokens |->
                      IF k \in removed
                      THEN [tokens[k] EXCEPT !.is_active = FALSE,
                                             !.user_notes = Append(@, "loss")]
                      ELSE tokens[k]]
           gone1 == {k \in DOMAIN tracking_tokens_by_group : <<k[2], k[1]>> \in removed}
           zero == {k \in DOMAIN db1 : ZeroLiquidity(db1[k])}
           db2 == [k \in DOMAIN db1 |->
                      IF k \in zero
                      THEN [db1[k] EXCEPT !.is_active = FALSE,
                                          !.user_notes = Append(@, "liquidity")]
                      ELSE db1[k]]
           gone2 == {k \in DOMAIN tracking_tokens_by_group \ gone1 :
                        <<k[2], k[1]>> \in zero}
       IN /\ tokens' = db2
          /\ tracking_tokens_by_group' =
                 [k \in DOMAIN tracking_tokens_by_group \ (gone1 \cup gone2) |->
                     tracking_tokens_by_group[k]]
          /\ sent_messages' = sent_messages
                 (+) SetToBag({Message(k[1], k[2], "auto_removal", AUTO_REMOVE_THRESHOLD) :
                                  k \in gone1})
                 (+) SetToBag({Message(k[1], k[2], "zero_liquidity", 0) : k \in gone2})
    \* the tasks of _check_all_groups are gone once it has returned
    /\ update_tasks' = [c \in {} |-> <<>>]
    /\ pc' = "sleep"
    /\ wake_at' = NextWake
    /\ UNCHANGED <<sent_alerts, last_alert_time, rug_alerts_sent, alert_tasks, now,
                   tick, api_calls, suppressed, removals, last_check>>
    /\ UNCHANGED <<lifecycle_vars, registration_vars, delivery_vars, group_vars>>

(***************************************************************************)
(* SolanaAlertBot.remove_token_command -> Database.remove_token.           *)
(***************************************************************************)
\* A removal that forgets the chat: WHERE contract_address = ?
RemovedKeysOfContract(contract_address, chat_id) ==
    {k \in DOMAIN tokens : k[1] = contract_address}

\* UPDATE tokens SET is_active = FALSE WHERE contract_address = ? AND chat_id = ?
RemovedKeys(contract_address, chat_id) ==
    {k \in DOMAIN tokens : k[1] = contract_address /\ k[2] = chat_id}

\* The command is served between two steps of the loop; the update phase does
\* not read is_active after its own write, so a removal during it is the same
\* as one at the start of the alert phase.
RemoveToken(contract_address, chat_id) ==
    /\ pc \in {"sleep", "alerts"}
    /\ Len(removals) < MaxRemovals
    /\ removals' = Append(removals,
           [contract |-> contract_address, chat_id |-> chat_id, tick |-> tick])
    /\ tokens' = [k \in DOMAIN tokens |->
           IF k \in RemovedKeys(contract_address, chat_id)
           THEN [tokens[k] EXCEPT !.is_active = FALSE]
           ELSE tokens[k]]
    /\ UNCHANGED <<tracking_tokens_by_group, sent_alerts, last_alert_time,
                   rug_alerts_sent, pc, update_tasks, alert_tasks, wake_at, now,
                   tick, api_calls, sent_messages, suppressed, last_check>>
    /\ UNCHANGED <<lifecycle_vars, registration_vars, delivery_vars, group_vars>>

(***************************************************************************)
(* Time passes.                                                            *)
(***************************************************************************)
\* The clock moves in steps of Delay while the loop sleeps: a tick is short
\* against Delay.
Elapse ==
    /\ pc = "sleep"
    /\ now + Delay <= MaxTime
    /\ now' = now + Delay
    /\ UNCHANGED <<tokens, tracking_tokens_by_group, sent_alerts, last_alert_time,
                   rug_alerts_sent, pc, update_tasks, alert_tasks, wake_at, tick,
                   api_calls, sent_messages, suppressed, removals, last_check>>
    /\ UNCHANGED <<lifecycle_vars, registration_vars, delivery_vars, group_vars>>

\* The tracking loop alone.
Next ==
    \/ StartTracking
    \/ TickStart
    \/ \E c \in Contracts : \E info \in Readings(c) : GetTokenInfo(c, info)
    \/ \E c \in Contracts, ok \in BOOLEAN : UpdateTokenPrice(c, ok)
    \/ \E c \in Contracts : UpdateTokenAcrossAllGroups(c)
    \/ StartAlertChecks
    \/ \E g \in Groups, c \in Contracts : CheckAllAlerts(g, c)
    \/ AutoRemoveRuggedTokens
    \/ Elapse

Spec == Init /\ [][Next]_vars

\* The tracking loop of one contract in two groups, with /remove commands.
InitCommands ==
    /\ Init
    /\ tokens \in StoresOfX

\* A command that names a row the table does not hold changes nothing.
NextCommands ==
    \/ Next
    \/ \E k \in DOMAIN tokens : RemoveToken(k[1], k[2])

SpecCommands == InitCommands /\ [][NextCommands]_vars

(***************************************************************************)
(* SolanaAlertBot.handle_message -> Database.add_token.                    *)
(***************************************************************************)
\* What the provider answers when a contract is posted in a chat.
TokenInfo(m, liq) == [market_cap |-> m, price |-> PriceOf(m), liquidity_usd |-> liq]
RegistrationData == {TokenInfo(1000, 500), TokenInfo(500, 0)}

\* The row INSERT OR REPLACE writes: the first observation is the registration.
NewRow(token_data) ==
    [DbRow(token_data.market_cap, token_data.market_cap, token_data.liquidity_usd)
        EXCEPT !.scan_confirmation_count = 1]

\* A posted contract that is already tracked in the chat, or has no market
\* data, writes nothing.  The handler starts the tracker when it is not
\* running and otherwise leaves it alone: the new row goes to the table only.
HandleMessage(contract_address, chat_id, token_data) ==
    /\ pc \in {"start", "sleep", "alerts"}
    /\ <<contract_address, chat_id>> \notin ActiveKeys(tokens)
    /\ token_data.market_cap > 0
    /\ tokens' = Put(tokens, <<contract_address, chat_id>>, NewRow(token_data))
    /\ UNCHANGED <<tracking_tokens_by_group, sent_alerts, last_alert_time,
                   rug_alerts_sent, pc, update_tasks, alert_tasks, wake_at, now,
                   tick, api_calls, sent_messages, suppressed, removals, last_check>>
    /\ UNCHANGED <<lifecycle_vars, registration_vars, delivery_vars, group_vars>>

\* The tracking loop of X, tracked by A at start, while chats post X.
StoreOfXInA == [k \in {<<"X", "A">>} |-> DbRow(1000, 1000, 500)]

InitRegistration ==
    /\ tokens = StoreOfXInA
    /\ TrackerInit

NextRegistration ==
    \/ Next
    \/ \E g \in Groups, token_data \in RegistrationData : HandleMessage("X", g, token_data)

SpecRegistration == InitRegistration /\ [][NextRegistration]_vars

\* The tracking loop of a single row: Z, registered by A at market cap 1000
\* just before the tracker started, or X, registered by A at 500 with a liquid
\* pair and confirmed there.
StoreOfZ == [k \in {<<"Z", "A">>} |-> NewRow(TokenInfo(1000, 500))]
StoreOfXAtHalf == [k \in {<<"X", "A">>} |-> DbRow(500, 500, 500)]

InitSingle ==
    /\ tokens \in {StoreOfZ, StoreOfXAtHalf}
    /\ TrackerInit

SpecSingle == InitSingle /\ [][Next]_vars

\* The same loop under the scheduling of asyncio: a task that is ready is run,
\* a call to the provider or to the store returns (with an answer or with an
\* error), and a sleep ends. Every step of the loop that can be taken is
\* taken in the end.
SpecFair == InitSingle /\ [][Next]_vars /\ WF_vars(Next)

(***************************************************************************)
(* The process ends and the bot is started again: a new TokenTracker.      *)
(***************************************************************************)
\* The table, the clock and the record of what was sent stay; everything the
\* tracker held in memory is as constructed.
Restart ==
    /\ pc = "sleep"
    /\ tick > 0
    /\ tracking_tokens_by_group' = [k \in {} |-> <<>>]
    /\ sent_alerts' = [k \in {} |-> {}]
    /\ last_alert_time' = [k \in {} |-> 0]
    /\ rug_alerts_sent' = {}
    /\ pc' = "start"
    /\ update_tasks' = [c \in {} |-> <<>>]
    /\ alert_tasks' = {}
    /\ wake_at' = 0
    /\ api_calls' = [c \in Contracts |-> 0]
    /\ UNCHANGED <<tokens, now, tick, sent_messages, removals, last_check, suppressed>>
    /\ UNCHANGED <<lifecycle_vars, registration_vars, delivery_vars, group_vars>>

\* The tracking loop of X in two groups, with restarts between ticks.
NextRestart ==
    \/ Next
    \/ Restart

SpecRestart == InitCommands /\ [][NextRestart]_vars

(***************************************************************************)
(* TokenTracker.start_tracking and stop_tracking.  Every call of           *)
(* start_tracking that passes its guard is a coroutine of its own; its     *)
(* positions are the awaits of the method.                                 *)
(***************************************************************************)
Loops == 1..MaxLoops

\* if self.is_running: return
NotRunning(l) == ~is_running

\* start_tracking, up to the await of _load_tokens_by_group; l is the first
\* coroutine not yet created.
StartTrackingCall(l) ==
    /\ loops[l] = "idle"
    /\ \A o \in Loops : o < l => loops[o] # "idle"
    /\ NotRunning(l)
    /\ is_running' = TRUE
    /\ loops' = [loops EXCEPT ![l] = "load"]
    /\ UNCHANGED <<tick_vars, registration_vars, delivery_vars, group_vars>>

\* _load_tokens_by_group and the initial backup have returned.
LoadTokensDone(l) ==
    /\ loops[l] = "load"
    /\ loops' = [loops EXCEPT ![l] = "while"]
    /\ UNCHANGED <<tick_vars, is_running, registration_vars, delivery_vars, group_vars>>

\* A loop that never reads the flag: while True.
WhileTrue(l) == TRUE

\* while self.is_running
WhileRunning(l) == is_running

\* while self.is_running: a tick starts with _check_all_groups, or the
\* coroutine returns.
LoopCondition(l) ==
    /\ loops[l] = "while"
    /\ loops' = [loops EXCEPT ![l] = IF WhileRunning(l) THEN "check" ELSE "returned"]
    /\ UNCHANGED <<tick_vars, is_running, registration_vars, delivery_vars, group_vars>>

\* _check_all_groups has returned: the fetch-and-update phase and the alert
\* phase of the tick are over.
CheckAllGroupsDone(l) ==
    /\ loops[l] = "check"
    /\ loops' = [loops EXCEPT ![l] = "sweep"]
    /\ UNCHANGED <<tick_vars, is_running, registration_vars, delivery_vars, group_vars>>

\* _auto_remove_rugged_tokens has returned, or the body of the loop has
\* raised: both go to asyncio.sleep(5).
SweepDone(l) ==
    /\ loops[l] \in {"check", "sweep"}
    /\ loops' = [loops EXCEPT ![l] = "sleep"]
    /\ UNCHANGED <<tick_vars, is_running, registration_vars, delivery_vars, group_vars>>

SleepDone(l) ==
    /\ loops[l] = "sleep"
    /\ loops' = [loops EXCEPT ![l] = "while"]
    /\ UNCHANGED <<tick_vars, is_running, registration_vars, delivery_vars, group_vars>>

\* stop_tracking: the flag only; no coroutine is cancelled or awaited.
StopTracking ==
    /\ is_running
    /\ is_running' = FALSE
    /\ UNCHANGED <<tick_vars, loops, registration_vars, delivery_vars, group_vars>>

InitLifecycle ==
    /\ tokens = StoreOfXInA
    /\ TrackerInit

NextLifecycle ==
    \/ \E l \in Loops : StartTrackingCall(l)
    \/ \E l \in Loops : LoadTokensDone(l)
    \/ \E l \in Loops : LoopCondition(l)
    \/ \E l \in Loops : CheckAllGroupsDone(l)
    \/ \E l \in Loops : SweepDone(l)
    \/ \E l \in Loops : SleepDone(l)
    \/ StopTracking

SpecLifecycle == InitLifecycle /\ [][NextLifecycle]_vars

\* A step of the coroutine l of start_tracking.
LoopStep(l) ==
    \/ LoadTokensDone(l)
    \/ LoopCondition(l)
    \/ CheckAllGroupsDone(l)
    \/ SweepDone(l)
    \/ SleepDone(l)

\* The event loop of asyncio resumes every coroutine whose await has
\* returned, and the awaits of start_tracking return: a coroutine that can
\* take its next step takes it.  Calls of start_tracking and stop_tracking
\* come from the commands of the bot and are under no obligation.
SpecLifecycleFair ==
    /\ InitLifecycle
    /\ [][NextLifecycle]_vars
    /\ \A l \in Loops : WF_vars(LoopStep(l))

(***************************************************************************)
(* TokenTracker.add_token, of the tracker the bot runs and of the tracker  *)
(* that came before it.                                                    *)
(***************************************************************************)
MaxAddTokens == 2
ADD_TOKEN_ATTEMPTS == 3

\* What the provider may answer when a token is registered: market data, a
\* token without a market cap, or nothing.
RegistrationReadings == {TokenInfo(1000, 500), TokenInfo(0, 0), NoData}

\* A test that rejects only a market cap below zero: market_cap < 0.
InvalidTokenDataBelowZero(token_info) == token_info = NoData \/ token_info.market_cap < 0

\* if not token_info or token_info.get('market_cap', 0) <= 0
InvalidTokenData(token_info) == token_info = NoData \/ token_info.market_cap <= 0

\* The cache entry add_token writes after the row is in the table.
NewTokenData(token_info) ==
    [initial_price |-> token_info.price,
     initial_mcap |-> token_info.market_cap,
     confirmed_scan_mcap |-> token_info.market_cap,
     current_price |-> token_info.price,
     current_mcap |-> token_info.market_cap,
     highest_mcap |-> token_info.market_cap,
     lowest_mcap |-> token_info.market_cap,
     loss_alerts_sent |-> <<>>]

\* What a call leaves for its caller: the provider's answers it received and
\* the value it returned.
AddTokenCall(contract_address, chat_id, answers, result) ==
    [contract_address |-> contract_address, chat_id |-> chat_id,
     answers |-> answers, result |-> result]

\* add_token of token_tracker_enhanced: a contract the cache holds for the
\* chat returns False before the provider is asked; one answer is taken from
\* the provider; a valid answer goes to the table, to the cache and to
\* sent_alerts.
AddToken(contract_address, chat_id, token_info) ==
    /\ pc \in {"start", "sleep", "alerts"}
    /\ Len(add_token_calls) < MaxAddTokens
    /\ LET tracked == <<chat_id, contract_address>> \in DOMAIN tracking_tokens_by_group
           success == ~tracked /\ ~InvalidTokenData(token_info)
       IN  /\ tokens' = IF success
                        THEN Put(tokens, <<contract_address, chat_id>>, NewRow(token_info))
                        ELSE tokens
           /\ tracking_tokens_by_group' =
                  IF success
                  THEN Put(tracking_tokens_by_group, <<chat_id, contract_address>>,
                           NewTokenData(token_info))
                  ELSE tracking_tokens_by_group
           /\ sent_alerts' = IF success
                             THEN Put(sent_alerts, <<contract_address, chat_id>>, {})
                             ELSE sent_alerts
           /\ add_token_calls' =
                  Append(add_token_calls,
                         AddTokenCall(contract_address, chat_id,
                                      IF tracked THEN <<>> ELSE <<token_info>>, success))
    /\ UNCHANGED <<last_alert_time, rug_alerts_sent, pc, update_tasks, alert_tasks,
                   wake_at, now, tick, api_calls, sent_messages, suppressed,
                   removals, last_check>>
    /\ UNCHANGED <<lifecycle_vars, delivery_vars, add_token_tasks, group_vars>>

\* The tracking loop of Z, registered by A just before the tracker started,
\* while add_token is called for Z.
InitAddToken ==
    /\ tokens = StoreOfZ
    /\ TrackerInit

NextAddToken ==
    \/ Next
    \/ \E g \in Groups, token_info \in RegistrationReadings : AddToken("Z", g, token_info)

SpecAddToken == InitAddToken /\ [][NextAddToken]_vars

\* A loop that makes every attempt whatever the provider answers.
RECURSIVE EveryAttempt(_, _)
EveryAttempt(readings, attempt) ==
    IF attempt = ADD_TOKEN_ATTEMPTS THEN attempt
    ELSE EveryAttempt(readings, attempt + 1)

\* for attempt in range(3): the attempt after which the loop is left, the
\* first with a positive market cap or else the last.
RECURSIVE LastAttempt(_, _)
LastAttempt(readings, attempt) ==
    IF attempt = ADD_TOKEN_ATTEMPTS \/ ~InvalidTokenData(readings[attempt]) THEN attempt
    ELSE LastAttempt(readings, attempt + 1)

\* add_token of token_tracker: its cache is keyed by the contract alone and
\* the chat is a field of the entry, here the one key of the contract.
LegacyAddToken(contract_address, chat_id, readings) ==
    /\ Len(add_token_calls) < MaxAddTokens
    /\ LET tracked == \E g \in Groups :
                          <<g, contract_address>> \in DOMAIN tracking_tokens_by_group
           attempts == LastAttempt(readings, 1)
           token_info == readings[attempts]
           success == ~tracked /\ ~InvalidTokenData(token_info)
       IN  /\ tokens' = IF success
                        THEN Put(tokens, <<contract_address, chat_id>>, NewRow(token_info))
                        ELSE tokens
           /\ tracking_tokens_by_group' =
                  IF success
                  THEN Put(tracking_tokens_by_group, <<chat_id, contract_address>>,
                           NewTokenData(token_info))
                  ELSE tracking_tokens_by_group
           /\ sent_alerts' = IF success
                             THEN Put(sent_alerts, <<contract_address, chat_id>>, {})
                             ELSE sent_alerts
           /\ add_token_calls' =
                  Append(add_token_calls,
                         AddTokenCall(contract_address, chat_id,
                                      IF tracked THEN <<>> ELSE SubSeq(readings, 1, attempts),
                                      success))
    /\ UNCHANGED <<last_alert_time, rug_alerts_sent, pc, update_tasks, alert_tasks,
                   wake_at, now, tick, api_calls, sent_messages, suppressed,
                   removals, last_check>>
    /\ UNCHANGED <<lifecycle_vars, delivery_vars, add_token_tasks, group_vars>>

\* The older tracker, constructed over an empty table and not started, while
\* add_token is called.
InitLegacy ==
    /\ tokens = [k \in {} |-> <<>>]
    /\ TrackerInit

NextLegacy ==
    \E c \in {"X", "Y"}, g \in Groups :
        \E readings \in [1..ADD_TOKEN_ATTEMPTS -> RegistrationReadings] :
            LegacyAddToken(c, g, readings)

SpecLegacy == InitLegacy /\ [][NextLegacy]_vars

(***************************************************************************)
(* The tracking loop with a dispatcher whose deliveries may fail.          *)
(***************************************************************************)
NextDelivery ==
    \/ Next
    \/ \E g \in Groups, c \in Contracts : CheckAllAlertsSending(g, c, TRUE)

SpecDelivery == InitCommands /\ [][NextDelivery]_vars

(***************************************************************************)
(* TokenTracker.add_token, one step per await: the test of the cache, the  *)
(* answer of the provider, and the write to the table with the cache       *)
(* entry that follows it.  Other coroutines run between the steps.         *)
(***************************************************************************)
\* The calls that await the provider or the table.
InFlight == {i \in DOMAIN add_token_tasks :
                add_token_tasks[i].stage \in {"fetching", "writing"}}

AddTokenTask(contract_address, chat_id, stage, others) ==
    [contract_address |-> contract_address, chat_id |-> chat_id, stage |-> stage,
     token_info |-> NoData, others |-> others, replaced |-> FALSE]

\* Lines 75-86: a contract the cache holds for the chat returns False; any
\* other call goes on to ask the provider.
AddTokenBegin(contract_address, chat_id) ==
    /\ pc \in {"start", "sleep", "alerts"}
    /\ Len(add_token_tasks) < MaxAddTokens
    /\ add_token_tasks' =
           Append(add_token_tasks,
                  AddTokenTask(contract_address, chat_id,
                               IF <<chat_id, contract_address>> \in DOMAIN tracking_tokens_by_group
                               THEN "False" ELSE "fetching",
                               InFlight))
    /\ UNCHANGED <<tick_vars, lifecycle_vars, delivery_vars, add_token_calls, group_vars>>

\* Lines 88-92: the provider answers; an answer without a positive market
\* cap returns False.
AddTokenFetch(i, token_info) ==
    /\ pc \in {"start", "sleep", "alerts"}
    /\ i \in DOMAIN add_token_tasks
    /\ add_token_tasks[i].stage = "fetching"
    /\ add_token_tasks' =
           [add_token_tasks EXCEPT
               ![i].stage = IF InvalidTokenData(token_info) THEN "False" ELSE "writing",
               ![i].token_info = token_info]
    /\ UNCHANGED <<tick_vars, lifecycle_vars, delivery_vars, add_token_calls, group_vars>>

\* Lines 95-135: INSERT OR REPLACE of the row, then the cache entry and the
\* empty set of sent multipliers; the call returns True.
AddTokenWrite(i) ==
    /\ pc \in {"start", "sleep", "alerts"}
    /\ i \in DOMAIN add_token_tasks
    /\ add_token_tasks[i].stage = "writing"
    /\ LET t == add_token_tasks[i]
           d == <<t.contract_address, t.chat_id>>
       IN /\ tokens' = Put(tokens, d, NewRow(t.token_info))
          /\ tracking_tokens_by_group' =
                 Put(tracking_tokens_by_group, <<t.chat_id, t.contract_address>>,
                     NewTokenData(t.token_info))
          /\ sent_alerts' = Put(sent_alerts, d, {})
          /\ add_token_tasks' =
                 [add_token_tasks EXCEPT ![i].stage = "True",
                                         ![i].replaced = d \in DOMAIN tokens]
    /\ UNCHANGED <<last_alert_time, rug_alerts_sent, pc, update_tasks, alert_tasks,
                   wake_at, now, tick, api_calls, sent_messages, suppressed,
                   removals, last_check>>
    /\ UNCHANGED <<lifecycle_vars, delivery_vars, add_token_calls, group_vars>>

\* What the provider may answer to the calls: two market caps, or nothing.
ConcurrentReadings == {TokenInfo(1000, 500), TokenInfo(1200, 500), NoData}

\* The tracking loop over a table that is empty at start, while add_token
\* is called for Z.
InitConcurrent ==
    /\ tokens = [k \in {} |-> <<>>]
    /\ TrackerInit

NextConcurrent ==
    \/ Next
    \/ \E chat_id \in Groups : AddTokenBegin("Z", chat_id)
    \/ \E i \in 1..MaxAddTokens : \E token_info \in ConcurrentReadings : AddTokenFetch(i, token_info)
    \/ \E i \in 1..MaxAddTokens : AddTokenWrite(i)

SpecConcurrent == InitConcurrent /\ [][NextConcurrent]_vars

(***************************************************************************)
(* The groups table: Database.register_group, called by /start and by      *)
(* every message, and Database.update_group_settings.                      *)
(***************************************************************************)
MaxGroupId == 4
DEFAULT_SETTINGS == "{}"
GroupSettings == {DEFAULT_SETTINGS, "{\"alerts\": false}"}

\* id INTEGER PRIMARY KEY without a value: one more than the largest id in
\* the table.
NextGroupId ==
    IF DOMAIN groups = {} THEN 1
    ELSE 1 + CHOOSE i \in {groups[g].id : g \in DOMAIN groups} :
                 \A g \in DOMAIN groups : groups[g].id <= i

\* The row INSERT writes from (chat_id, chat_title, chat_type) and the
\* defaults of the columns left out.
GroupRow(id, chat_title) ==
    [id |-> id, chat_title |-> chat_title, settings |-> DEFAULT_SETTINGS,
     created_at |-> now, is_active |-> TRUE]

\* INSERT OR REPLACE INTO groups (chat_id, chat_title, chat_type): a row
\* with the same chat_id is deleted and the new row is inserted in its place.
RegisteredRow(chat_id, chat_title) == GroupRow(NextGroupId, chat_title)

RegisterGroup(chat_id, chat_title) ==
    /\ NextGroupId <= MaxGroupId
    /\ groups' = Put(groups, chat_id, RegisteredRow(chat_id, chat_title))
    /\ UNCHANGED <<tick_vars, lifecycle_vars, registration_vars, delivery_vars>>

\* UPDATE groups SET settings = ? WHERE chat_id = ?
UpdateGroupSettings(chat_id, settings) ==
    /\ chat_id \in DOMAIN groups
    /\ groups' = [groups EXCEPT ![chat_id].settings = settings]
    /\ UNCHANGED <<tick_vars, lifecycle_vars, registration_vars, delivery_vars>>

\* Messages and commands of two chats while the loop sleeps between ticks.
NextGroups ==
    \/ StartTracking
    \/ Elapse
    \/ \E chat_id \in Groups : RegisterGroup(chat_id, "The Hunted")
    \/ \E chat_id \in Groups, settings \in GroupSettings :
           UpdateGroupSettings(chat_id, settings)

SpecGroups == InitLifecycle /\ [][NextGroups]_vars

(***************************************************************************)
(* Properties.                                                             *)
(***************************************************************************)
Sent == BagToSet(sent_messages)

\* A step in which the alert task of at least one row runs.
AlertCheckStep == alert_tasks' # alert_tasks /\ alert_tasks' \subseteq alert_tasks

\* The update task of contract c has returned in this tick.
UpdateTaskReturned(c) ==
    c \in DOMAIN update_tasks /\ update_tasks[c].stage \in {"True", "False"}

\* The provider answered the call for c in this tick with a usable reading.
FetchSucceeded(c) ==
    c \in DOMAIN update_tasks /\ ValidInfo(update_tasks[c].info)

\* The provider is called once per tracked contract and tick.
OneCallPerContract ==
    /\ \A c \in Contracts : api_calls[c] <= 1
    /\ pc \in {"update", "alerts"} =>
          \A c \in Contracts \ DOMAIN update_tasks : api_calls[c] = 0
    /\ \A c \in DOMAIN update_tasks :
          api_calls[c] = IF update_tasks[c].stage = "fetching" THEN 0 ELSE 1

\* C1: in one refresh tick the price provider is called exactly once for every
\* tracked contract, however many groups track it, and after a successful
\* fetch every cached row of that contract holds the same current_mcap and
\* current_price, those of the reading.
DedupOneCallSameValues ==
    /\ OneCallPerContract
    /\ \A c \in Contracts :
          UpdateTaskReturned(c) /\ FetchSucceeded(c) =>
              \A k \in DOMAIN tracking_tokens_by_group :
                  k[2] = c =>
                      /\ tracking_tokens_by_group[k].current_mcap
                             = update_tasks[c].info.market_cap
                      /\ tracking_tokens_by_group[k].current_price
                             = update_tasks[c].info.price

\* C2: within a tick no row is evaluated for alerts before the update task of
\* every unique contract of the tick has finished, and a row whose contract
\* was updated is evaluated against the reading of this tick.
UpdateBeforeEvaluate ==
    [][AlertCheckStep =>
          /\ \A c \in DOMAIN update_tasks : update_tasks[c].stage \in {"True", "False"}
          /\ \A k \in alert_tasks \ alert_tasks' :
                update_tasks[k[2]].stage = "True" =>
                    tracking_tokens_by_group[k].current_mcap
                        = update_tasks[k[2]].info.market_cap]_vars

\* X and Y were both updated in this tick and a row has been evaluated and
\* alerted on the new values.
UpdateBeforeEvaluateWitness ==
    /\ pc = "alerts"
    /\ DOMAIN tracking_tokens_by_group \ alert_tasks # {}
    /\ \A c \in {"X", "Y"} : c \in DOMAIN update_tasks /\ update_tasks[c].stage = "True"
    /\ \E m \in Sent : m.tick = tick /\ m.family = "multiplier"

(***************************************************************************)
(* What one alert check reads and what it dispatches.                      *)
(***************************************************************************)
\* The rows whose alert task runs in this step.
CheckedRows == IF AlertCheckStep THEN alert_tasks \ alert_tasks' ELSE {}

\* The messages this step dispatches to a row for a family.
NewMessages(k, family) ==
    {m \in BagToSet(sent_messages') \ BagToSet(sent_messages) :
        m.chat_id = k[1] /\ m.contract = k[2] /\ m.family = family}

MessagesOf(k, family) ==
    {m \in Sent : m.chat_id = k[1] /\ m.contract = k[2] /\ m.family = family}

Levels(messages) == {m.level : m \in messages}

\* now - last_alert_time < ALERT_COOLDOWN, for the family of a cached row
OnCooldown(k, family) ==
    /\ <<k[2], k[1], family>> \in DOMAIN last_alert_time
    /\ now - last_alert_time[<<k[2], k[1], family>>] < ALERT_COOLDOWN

FiredMultipliers(k) ==
    IF <<k[2], k[1]>> \in DOMAIN sent_alerts THEN sent_alerts[<<k[2], k[1]>>] ELSE {}

FiredLosses(k) == Range(tracking_tokens_by_group[k].loss_alerts_sent)

\* The configured levels L with current_mcap / baseline >= L.
CrossedMultipliers(k) ==
    LET td == tracking_tokens_by_group[k]
    IN {L \in Range(ALERT_MULTIPLIERS) :
           Baseline(td) > 0 /\ td.current_mcap >= L * Baseline(td)}

\* The configured levels L with (current_mcap - baseline) / baseline * 100 <= L.
CrossedLosses(k) ==
    LET td == tracking_tokens_by_group[k]
    IN {L \in Range(LOSS_THRESHOLDS) :
           Baseline(td) > 0
           /\ (td.current_mcap - Baseline(td)) * 100 <= L * Baseline(td)}

\* C3: over any sequence of ticks a multiplier level and a loss level is
\* dispatched at most once per (contract, group) row, and the fired multiplier
\* set and fired loss set of a row never lose a level.
NeverRefired ==
    /\ [](\A m1 \in Sent : m1.family \in {"multiplier", "loss"} =>
              /\ CopiesIn(m1, sent_messages) = 1
              /\ \A m2 \in Sent :
                    /\ m2.chat_id = m1.chat_id /\ m2.contract = m1.contract
                    /\ m2.family = m1.family /\ m2.level = m1.level
                    => m2 = m1)
    /\ [][/\ \A d \in DOMAIN sent_alerts :
                d \in DOMAIN sent_alerts' /\ sent_alerts[d] \subseteq sent_alerts'[d]
          /\ \A k \in DOMAIN tracking_tokens_by_group
                      \cap DOMAIN tracking_tokens_by_group' :
                Range(tracking_tokens_by_group[k].loss_alerts_sent)
                    \subseteq Range(tracking_tokens_by_group'[k].loss_alerts_sent)]_vars

\* A level fired in an earlier tick is still crossed when the row is checked
\* again after the cooldown has elapsed.
NeverRefiredWitness ==
    \E m \in Sent :
        LET k == <<m.chat_id, m.contract>>
        IN /\ m.family = "multiplier"
           /\ m.tick < tick
           /\ now - m.at >= ALERT_COOLDOWN
           /\ k \in DOMAIN tracking_tokens_by_group
           /\ k \in DOMAIN last_check
           /\ last_check[k].tick = tick
           /\ last_check[k].multiplier_run
           /\ m.level \in CrossedMultipliers(k)
           /\ m.level \in FiredMultipliers(k)

\* C4: a row checked while the multiplier family is not on cooldown fires, in
\* that tick, every configured level L with current_mcap / baseline >= L that
\* is not in its fired set, not only the highest one; a later check at the same
\* current_mcap fires no multiplier level.
AllCrossedMultipliersFire ==
    [][\A k \in CheckedRows :
          /\ ~OnCooldown(k, "multiplier") =>
                /\ Levels(NewMessages(k, "multiplier"))
                       = CrossedMultipliers(k) \ FiredMultipliers(k)
                /\ sent_alerts'[<<k[2], k[1]>>]
                       = FiredMultipliers(k) \cup CrossedMultipliers(k)
          /\ ( /\ k \in DOMAIN last_check
               /\ last_check[k].multiplier_run
               /\ last_check[k].current_mcap
                      = tracking_tokens_by_group[k].current_mcap )
             => NewMessages(k, "multiplier") = {}]_vars

\* Levels 2 and 3 were fired together, and the row was checked again, free of
\* cooldown, at the same market cap without a further alert.
AllCrossedMultipliersWitness ==
    \E k \in DOMAIN last_check :
        \E t \in 1..(last_check[k].tick - 1) :
            /\ {2, 3} \subseteq Levels({m \in MessagesOf(k, "multiplier") : m.tick = t})
            /\ last_check[k].multiplier_run
            /\ k \in DOMAIN tracking_tokens_by_group
            /\ last_check[k].current_mcap = tracking_tokens_by_group[k].current_mcap
            /\ {3} \subseteq CrossedMultipliers(k)
            /\ {m \in MessagesOf(k, "multiplier") : m.tick = last_check[k].tick} = {}

\* C5: a row checked while the loss family is not on cooldown fires exactly the
\* configured loss levels L not yet fired for it with loss_pct <= L, where
\* loss_pct = (current_mcap - baseline) / baseline * 100, and no level more
\* severe than loss_pct.
ExactlyCrossedLossesFire ==
    [][\A k \in CheckedRows :
          ~OnCooldown(k, "loss") =>
              /\ Levels(NewMessages(k, "loss")) = CrossedLosses(k) \ FiredLosses(k)
              /\ Range(tracking_tokens_by_group'[k].loss_alerts_sent)
                     = FiredLosses(k) \cup CrossedLosses(k)]_vars

\* At -75% the levels -30, -50 and -70 were fired in one tick and -80 was
\* not; another row sits exactly on its -50% level and has fired it.
ExactlyCrossedLossesWitness ==
    /\ \E k \in DOMAIN tracking_tokens_by_group :
          /\ Baseline(tracking_tokens_by_group[k]) = 1000
          /\ tracking_tokens_by_group[k].current_mcap = 250
          /\ Levels({m \in MessagesOf(k, "loss") : m.tick = tick}) = {-30, -50, -70}
    /\ \E k \in DOMAIN tracking_tokens_by_group :
          /\ Baseline(tracking_tokens_by_group[k]) = 500
          /\ tracking_tokens_by_group[k].current_mcap = 250
          /\ Levels({m \in MessagesOf(k, "loss") : m.tick = tick}) = {-30, -50}

\* C6: a row checked while a family is on cooldown for it gets no alert of that
\* family in that tick and its fired set of that family is left as it was,
\* also when a new level is crossed.
CooldownSuppresses ==
    [][\A k \in CheckedRows :
          /\ OnCooldown(k, "multiplier") =>
                /\ NewMessages(k, "multiplier") = {}
                /\ sent_alerts' = sent_alerts
          /\ OnCooldown(k, "loss") =>
                /\ NewMessages(k, "loss") = {}
                /\ tracking_tokens_by_group'[k].loss_alerts_sent
                       = tracking_tokens_by_group[k].loss_alerts_sent
          /\ OnCooldown(k, "rug") =>
                /\ NewMessages(k, "rug") = {}
                /\ rug_alerts_sent' = rug_alerts_sent]_vars

\* A row was checked in this tick while on multiplier cooldown, with a level
\* crossed for the first time.
CooldownSuppressesWitness ==
    \E s \in suppressed :
        LET k == <<s[2], s[1]>>
        IN /\ s[3] = "multiplier"
           /\ k \in DOMAIN tracking_tokens_by_group
           /\ last_check[k].tick = tick
           /\ ~last_check[k].multiplier_run
           /\ s[4] \in CrossedMultipliers(k) \ FiredMultipliers(k)
           /\ FiredMultipliers(k) # {}

\* The levels of a family that a row has crossed.
Crossed(k, family) ==
    IF family = "multiplier" THEN CrossedMultipliers(k)
    ELSE IF family = "loss" THEN CrossedLosses(k)
    ELSE {}

SameRowAndFamily(m1, m2) ==
    /\ m1.chat_id = m2.chat_id
    /\ m1.contract = m2.contract
    /\ m1.family = m2.family

Apart(m1, m2) == IF m1.at >= m2.at THEN m1.at - m2.at ELSE m2.at - m1.at

\* C7: a level that was crossed but held back by the cooldown is dispatched at
\* the first tick at which the cooldown has elapsed, the row is still tracked
\* and the level is still crossed: every tick checks every cached row, and the
\* check of a row dispatches each such level unless an earlier check already
\* has.
SuppressedLevelDelivered ==
    [][/\ \A k \in CheckedRows : \A s \in suppressed :
             ( /\ s[1] = k[2] /\ s[2] = k[1]
               /\ ~OnCooldown(k, s[3])
               /\ s[4] \in Crossed(k, s[3]) )
             => \E m \in BagToSet(sent_messages') :
                   /\ m.chat_id = k[1] /\ m.contract = k[2]
                   /\ m.family = s[3] /\ m.level = s[4]
                   /\ m.tick <= tick
       /\ (pc = "update" /\ pc' = "alerts")
             => alert_tasks' = DOMAIN tracking_tokens_by_group
       /\ (pc = "alerts" /\ pc' # "alerts") => alert_tasks = {}
       /\ tick' # tick => alert_tasks = {}]_vars

\* Level 3 was held back while level 2 was cooling down and has been
\* dispatched in this tick, one cooldown after level 2.
SuppressedLevelDeliveredWitness ==
    \E s \in suppressed : \E m \in Sent : \E m0 \in Sent :
        /\ s[3] = "multiplier"
        /\ m.contract = s[1] /\ m.chat_id = s[2]
        /\ m.family = s[3] /\ m.level = s[4]
        /\ m.tick = tick
        /\ SameRowAndFamily(m0, m)
        /\ m0.tick < m.tick - 1
        /\ m.at - m0.at = ALERT_COOLDOWN

CooldownsIndependent ==
    [][/\ DOMAIN last_alert_time \subseteq DOMAIN last_alert_time'
       /\ \A K \in DOMAIN last_alert_time' :
             (K \notin DOMAIN last_alert_time \/ last_alert_time'[K] # last_alert_time[K])
             => /\ NewMessages(<<K[2], K[1]>>, K[3]) # {}
                /\ last_alert_time'[K] = now]_vars

\* A loss alert followed a multiplier alert of the same row within the
\* cooldown, and two groups got the same family for one contract in one tick.
CooldownsIndependentWitness ==
    /\ \E m1 \in Sent : \E m2 \in Sent :
          /\ m1.chat_id = m2.chat_id /\ m1.contract = m2.contract
          /\ m1.family = "multiplier" /\ m2.family = "loss"
          /\ m2.at > m1.at
          /\ m2.at - m1.at < ALERT_COOLDOWN
    /\ \E m3 \in Sent : \E m4 \in Sent :
          /\ m3.contract = m4.contract /\ m3.family = m4.family
          /\ m3.chat_id # m4.chat_id
          /\ m3.tick = m4.tick

\* C10: removing a contract from one group changes nothing but is_active of
\* that group's row: the row of every other group stays active with its fields
\* as they were, stays in the cache, and later ticks write every reading to it
\* and check it for alerts.
RemovalLeavesOtherGroups ==
    /\ [][removals' # removals =>
             LET r == removals'[Len(removals')]
             IN /\ DOMAIN tokens' = DOMAIN tokens
                /\ \A d \in DOMAIN tokens :
                      IF d = <<r.contract, r.chat_id>>
                      THEN tokens'[d] = [tokens[d] EXCEPT !.is_active = FALSE]
                      ELSE tokens'[d] = tokens[d]
                /\ UNCHANGED <<tracking_tokens_by_group, sent_alerts, last_alert_time,
                               rug_alerts_sent, update_tasks, alert_tasks>>]_vars
    /\ [](pc # "start" =>
             \A d \in ActiveKeys(tokens) : <<d[2], d[1]>> \in DOMAIN tracking_tokens_by_group)
    /\ [](\A c \in Contracts :
             (UpdateTaskReturned(c) /\ update_tasks[c].stage = "True") =>
                 \A d \in ActiveKeys(tokens) :
                     d[1] = c =>
                         /\ tokens[d].current_mcap = update_tasks[c].info.market_cap
                         /\ tracking_tokens_by_group[<<d[2], d[1]>>].current_mcap
                                = update_tasks[c].info.market_cap)
    /\ [][\A k \in CheckedRows :
             (tokens[<<k[2], k[1]>>].is_active /\ ~OnCooldown(k, "multiplier"))
             => Levels(NewMessages(k, "multiplier"))
                    = CrossedMultipliers(k) \ FiredMultipliers(k)]_vars

\* X was removed from A; in a later tick B's row, still active, holds the new
\* reading in the table and in the cache and B was alerted.
RemovalLeavesOtherGroupsWitness ==
    /\ Len(removals) = 1
    /\ removals[1].contract = "X" /\ removals[1].chat_id = "A"
    /\ ~tokens[<<"X", "A">>].is_active
    /\ tokens[<<"X", "B">>].is_active
    /\ tokens[<<"X", "B">>].current_mcap = 2000
    /\ tracking_tokens_by_group[<<"B", "X">>].current_mcap = 2000
    /\ \E m \in Sent :
          /\ m.chat_id = "B" /\ m.contract = "X" /\ m.family = "multiplier"
          /\ m.tick > removals[1].tick

(***************************************************************************)
(* Terminal rows and the sweep.                                            *)
(***************************************************************************)
\* The values the refresh keeps for a row.
TrackedValues(r) == <<r.current_mcap, r.current_price, r.highest_mcap, r.lowest_mcap>>

\* C11: once a (contract, group) row is terminal, by /remove or by the sweep,
\* no later step of a tick changes its tracked values, in the table or in the
\* cache, and no multiplier, loss or rug alert goes to that group for that
\* contract.
TerminalRowsAreLeftAlone ==
    [][\A d \in DOMAIN tokens :
          ~tokens[d].is_active =>
              LET k == <<d[2], d[1]>>
              IN /\ TrackedValues(tokens'[d]) = TrackedValues(tokens[d])
                 /\ k \in DOMAIN tracking_tokens_by_group
                       \cap DOMAIN tracking_tokens_by_group' =>
                       TrackedValues(tracking_tokens_by_group'[k])
                           = TrackedValues(tracking_tokens_by_group[k])
                 /\ \A f \in Families : NewMessages(k, f) = {}]_vars

\* The removal notices of the sweep.
NoticeFamilies == {"auto_removal", "zero_liquidity"}

NewNotices(k) ==
    {m \in BagToSet(sent_messages') \ BagToSet(sent_messages) :
        m.chat_id = k[1] /\ m.contract = k[2] /\ m.family \in NoticeFamilies}

\* The sweep takes the row of table key d from active to removed in this step.
AutoRemoved(d) ==
    /\ d \in DOMAIN tokens
    /\ tokens[d].is_active
    /\ ~tokens'[d].is_active
    /\ removals' = removals

\* C12: every transition of a row from active to auto-removed, by loss or by
\* liquidity, hands exactly one removal notice to the row's group and takes the
\* row out of the cache and of the table's active rows in the same sweep; there
\* is no transition without a notice and no notice without a transition.
EveryAutoRemovalHasOneNotice ==
    [][\A d \in Contracts \X Groups :
          LET k == <<d[2], d[1]>>
          IN /\ AutoRemoved(d) =>
                   /\ Cardinality(NewNotices(k)) = 1
                   /\ \A m \in NewNotices(k) : CopiesIn(m, sent_messages') = 1
                   /\ k \notin DOMAIN tracking_tokens_by_group'
                   /\ d \notin ActiveKeys(tokens')
             /\ NewNotices(k) # {} => AutoRemoved(d)]_vars

\* A step that is one run of _auto_remove_rugged_tokens.
SweepStep == pc \in {"sweep", "alerts"} /\ pc' = "sleep"

\* C13: the sweep is idempotent: a run over a row that is already removed
\* leaves the row as it is, in the table and out of the cache, and sends no
\* notice for it, so no row ever has a second removal notice.
SweepIsIdempotent ==
    /\ [][SweepStep =>
             \A d \in DOMAIN tokens :
                 ~tokens[d].is_active =>
                     /\ tokens'[d] = tokens[d]
                     /\ <<d[2], d[1]>> \notin DOMAIN tracking_tokens_by_group'
                     /\ NewNotices(<<d[2], d[1]>>) = {}]_vars
    /\ [](\A m1, m2 \in Sent :
             /\ m1.family \in NoticeFamilies
             /\ m2.family \in NoticeFamilies
             /\ m1.chat_id = m2.chat_id
             /\ m1.contract = m2.contract
             => m1 = m2 /\ CopiesIn(m1, sent_messages) = 1)

\* A sweep has just run in a tick after the one that removed a row.
SweepIsIdempotentWitness ==
    /\ pc = "sleep"
    /\ wake_at = now + TICK_SLEEP
    /\ \E m \in Sent :
          /\ m.family \in NoticeFamilies
          /\ m.tick < tick
          /\ ~tokens[<<m.contract, m.chat_id>>].is_active

\* The baseline the table holds for a row, and the test loss_pct <= level on it.
StoreBaseline(t) ==
    IF t.confirmed_scan_mcap # 0 THEN t.confirmed_scan_mcap ELSE t.initial_mcap

StoreLossAtOrBelow(t, level) ==
    /\ StoreBaseline(t) > 0
    /\ (t.current_mcap - StoreBaseline(t)) * 100 <= level * StoreBaseline(t)

\* The sweep of the current tick has returned and the loop sleeps.
AfterSweep == pc = "sleep" /\ tick > 0

\* C14: after every sweep no active row of the table is at or below
\* AUTO_REMOVE_THRESHOLD relative to its baseline.
NoRuggedRowSurvivesSweep ==
    AfterSweep =>
        \A d \in ActiveKeys(tokens) : ~StoreLossAtOrBelow(tokens[d], AUTO_REMOVE_THRESHOLD)

\* A sweep has removed a row that stood exactly at the threshold (baseline 500,
\* market cap 100) and whose pair was liquid.
NoRuggedRowSurvivesSweepWitness ==
    /\ AfterSweep
    /\ wake_at = now + TICK_SLEEP
    /\ \E d \in DOMAIN tokens :
          /\ ~tokens[d].is_active
          /\ tokens[d].user_notes = <<"loss">>
          /\ tokens[d].liquidity_usd >= LIQUIDITY_FLOOR
          /\ (tokens[d].current_mcap - StoreBaseline(tokens[d])) * 100
                 = AUTO_REMOVE_THRESHOLD * StoreBaseline(tokens[d])

\* update_token_price writes an observation of its contract into the active
\* row of table key d in this step.
ObservationWritten(d) ==
    /\ tokens[d].is_active
    /\ d[1] \in DOMAIN update_tasks
    /\ update_tasks[d[1]].stage = "writing"
    /\ update_tasks'[d[1]].stage = "written"

\* C15: in the table the baseline of a row follows each observation written
\* while the confirmation count is below 3 and changes in no other way; at
\* count 3 no observation changes it; the count never decreases and never
\* exceeds 3.
BaselineFollowsThenFreezes ==
    [][\A d \in DOMAIN tokens :
          LET t == tokens[d]
              u == tokens'[d]
          IN /\ u.scan_confirmation_count >= t.scan_confirmation_count
             /\ u.scan_confirmation_count <= CONFIRMATIONS_NEEDED
             /\ t.scan_confirmation_count >= CONFIRMATIONS_NEEDED =>
                    u.confirmed_scan_mcap = t.confirmed_scan_mcap
             /\ ObservationWritten(d) /\ t.scan_confirmation_count < CONFIRMATIONS_NEEDED =>
                    /\ u.confirmed_scan_mcap = update_tasks[d[1]].info.market_cap
                    /\ u.scan_confirmation_count = t.scan_confirmation_count + 1
             /\ ~ObservationWritten(d) =>
                    /\ u.confirmed_scan_mcap = t.confirmed_scan_mcap
                    /\ u.scan_confirmation_count = t.scan_confirmation_count]_vars

\* Z, registered at 1000, has been observed at 1200 as its third observation
\* and at 900 as its fourth: the baseline is 1200.
BaselineFollowsThenFreezesWitness ==
    /\ <<"Z", "A">> \in DOMAIN tokens
    /\ tick = 3
    /\ tokens[<<"Z", "A">>].initial_mcap = 1000
    /\ tokens[<<"Z", "A">>].current_mcap = 900
    /\ tokens[<<"Z", "A">>].lowest_mcap = 900
    /\ tokens[<<"Z", "A">>].highest_mcap = 1200
    /\ tokens[<<"Z", "A">>].confirmed_scan_mcap = 1200
    /\ tokens[<<"Z", "A">>].scan_confirmation_count = CONFIRMATIONS_NEEDED

(* Extrema. *)
Ordered(r) == r.highest_mcap >= r.current_mcap /\ r.current_mcap >= r.lowest_mcap

\* C16: every row, in the cache and in the table, has
\* highest_mcap >= current_mcap >= lowest_mcap from its registration on.
ExtremaEncloseCurrent ==
    /\ \A k \in DOMAIN tracking_tokens_by_group : Ordered(tracking_tokens_by_group[k])
    /\ \A d \in DOMAIN tokens : Ordered(tokens[d])

\* A row that has been above and below its present market cap, the same in the
\* cache and in the table.
ExtremaEncloseCurrentWitness ==
    \E k \in DOMAIN tracking_tokens_by_group :
        LET r == tracking_tokens_by_group[k]
            t == tokens[<<k[2], k[1]>>]
        IN /\ r.highest_mcap > r.current_mcap
           /\ r.current_mcap > r.lowest_mcap
           /\ r.current_mcap # r.initial_mcap
           /\ TrackedValues(t) = TrackedValues(r)

\* C17: from one step to the next highest_mcap of a row never decreases and
\* lowest_mcap never increases, in the cache and in the table, whether the
\* fetch of the tick succeeds or fails.
ExtremaOnlyWiden ==
    [][/\ \A k \in DOMAIN tracking_tokens_by_group \cap DOMAIN tracking_tokens_by_group' :
             /\ tracking_tokens_by_group'[k].highest_mcap
                    >= tracking_tokens_by_group[k].highest_mcap
             /\ tracking_tokens_by_group'[k].lowest_mcap
                    <= tracking_tokens_by_group[k].lowest_mcap
       /\ \A d \in DOMAIN tokens :
             /\ tokens'[d].highest_mcap >= tokens[d].highest_mcap
             /\ tokens'[d].lowest_mcap <= tokens[d].lowest_mcap]_vars

\* A row went up to 3000 and down to 250, and the fetch of the present tick
\* has failed: both extrema are still there.
ExtremaOnlyWidenWitness ==
    /\ "X" \in DOMAIN update_tasks
    /\ update_tasks["X"] = [stage |-> "False", info |-> NoData]
    /\ \E k \in DOMAIN tracking_tokens_by_group :
          /\ k[2] = "X"
          /\ tracking_tokens_by_group[k].highest_mcap = 3000
          /\ tracking_tokens_by_group[k].lowest_mcap = 250
          /\ tokens[<<k[2], k[1]>>].highest_mcap = 3000
          /\ tokens[<<k[2], k[1]>>].lowest_mcap = 250

(* Failures of a tick. *)
\* What the tracker holds about contract c: its rows in the table and in the
\* cache, its fired sets, its cooldowns.
StateOfContract(c, db, cache, fired, cooldowns, rugs) ==
    <<[d \in {x \in DOMAIN db : x[1] = c} |-> db[d]],
      [k \in {x \in DOMAIN cache : x[2] = c} |-> cache[k]],
      [d \in {x \in DOMAIN fired : x[1] = c} |-> fired[d]],
      [e \in {x \in DOMAIN cooldowns : x[1] = c} |-> cooldowns[e]],
      {d \in rugs : d[1] = c}>>

\* C18: while the update phase of a tick runs, a contract whose fetch has
\* given no data or a market cap that is not positive (or has not answered
\* yet) keeps every row as it was, in the cache and in the table: current
\* values, extrema, baseline, fired sets and cooldowns.
FailedFetchChangesNothing ==
    [][pc = "update" =>
          \A c \in DOMAIN update_tasks' :
              update_tasks'[c].info.market_cap <= 0 =>
                  StateOfContract(c, tokens', tracking_tokens_by_group', sent_alerts',
                                  last_alert_time', rug_alerts_sent')
                      = StateOfContract(c, tokens, tracking_tokens_by_group, sent_alerts,
                                        last_alert_time, rug_alerts_sent)]_vars

\* The update phase of a later tick is over, the fetch of X has failed in it,
\* and the row of X in A still holds the 2000 of an earlier tick, its fired 2x
\* and the cooldown that alert started.
FailedFetchChangesNothingWitness ==
    /\ pc = "alerts"
    /\ "X" \in DOMAIN update_tasks
    /\ update_tasks["X"] = [stage |-> "False", info |-> NoData]
    /\ <<"A", "X">> \in DOMAIN tracking_tokens_by_group
    /\ tracking_tokens_by_group[<<"A", "X">>].current_mcap = 2000
    /\ tokens[<<"X", "A">>].current_mcap = 2000
    /\ <<"X", "A">> \in DOMAIN sent_alerts
    /\ 2 \in sent_alerts[<<"X", "A">>]
    /\ <<"X", "A", "multiplier">> \in DOMAIN last_alert_time

\* The fetch of c has failed in this tick: no data, no positive market cap, or
\* an exception of the provider.
FetchFailed(c) ==
    /\ c \in DOMAIN update_tasks
    /\ update_tasks[c].stage = "False"
    /\ ~ValidInfo(update_tasks[c].info)

\* The fetch of c gave a reading in this tick and update_token_price raised.
StoreWriteFailed(c) ==
    /\ c \in DOMAIN update_tasks
    /\ update_tasks[c].stage = "False"
    /\ ValidInfo(update_tasks[c].info)

\* Every cached row of c holds the reading of this tick.
CacheHoldsReading(c) ==
    \A k \in DOMAIN tracking_tokens_by_group :
        k[2] = c =>
            /\ tracking_tokens_by_group[k].current_mcap = update_tasks[c].info.market_cap
            /\ tracking_tokens_by_group[k].current_price = update_tasks[c].info.price

\* C19: in a tick in which the fetch of one contract fails, every other
\* contract whose fetch succeeds has been fetched once, holds its reading in
\* every group that tracks it when the alert phase runs, and is evaluated
\* for alerts on that reading in the same tick.
OtherContractsStillServed ==
    /\ [](pc = "alerts" =>
             \A c, failed \in Contracts :
                 c # failed /\ FetchFailed(failed) /\ FetchSucceeded(c) =>
                     api_calls[c] = 1 /\ CacheHoldsReading(c))
    /\ [][/\ \A k \in CheckedRows :
                 /\ FetchSucceeded(k[2])
                 /\ \E failed \in Contracts \ {k[2]} : FetchFailed(failed)
                 => /\ last_check'[k].current_mcap = update_tasks[k[2]].info.market_cap
                    /\ last_check'[k].tick = tick
          /\ SweepStep => alert_tasks = {}]_vars

\* C20: when the fetch gives a valid reading and the write to the table fails,
\* the cached rows of the contract take the reading in every group and the
\* alert evaluation of the tick sees it.
CacheUpdatedWhenStoreFails ==
    /\ [](pc = "alerts" =>
             \A c \in Contracts : StoreWriteFailed(c) => CacheHoldsReading(c))
    /\ [][\A k \in CheckedRows :
               StoreWriteFailed(k[2]) =>
                   last_check'[k].current_mcap = update_tasks[k[2]].info.market_cap]_vars

(* Start and stop. *)
\* The coroutines of start_tracking that have not returned.
ActiveLoops == {l \in Loops : loops[l] \notin {"idle", "returned"}}

\* The coroutines inside _check_all_groups.
LoopsInTick == {l \in Loops : loops[l] = "check"}

\* C21: whatever the order of the calls of start_tracking and stop_tracking,
\* at most one tracking loop is active, and no tick starts while the
\* _check_all_groups of another tick has not returned.
AtMostOneLoop ==
    /\ Cardinality(ActiveLoops) <= 1
    /\ Cardinality(LoopsInTick) <= 1

(* One reading, all groups. *)
\* The rows of contract c a refresh writes: every cached row, every active
\* row of the table.
CachedRowsOf(c) == {k \in DOMAIN tracking_tokens_by_group : k[2] = c}
ActiveRowsOf(c) == {d \in ActiveKeys(tokens) : d[1] = c}
\* Those of them a step leaves in place.
KeptCachedRowsOf(c) == CachedRowsOf(c) \cap DOMAIN tracking_tokens_by_group'
KeptActiveRowsOf(c) == ActiveRowsOf(c) \cap ActiveKeys(tokens')

\* C22: the refresh of a contract is atomic across groups: a step that gives
\* one group's row of the contract a new market cap or price gives the same
\* values to the row of every other group, in the cache and in the table, so
\* no step of an alert check, a registration or a sweep finds one group on
\* the reading of the tick and another on the previous one.
UpdateAcrossGroupsIsAtomic ==
    [][\A c \in Contracts :
          /\ \A k, j \in KeptCachedRowsOf(c) :
                 /\ <<tracking_tokens_by_group'[k].current_mcap,
                       tracking_tokens_by_group'[k].current_price>>
                        # <<tracking_tokens_by_group[k].current_mcap,
                            tracking_tokens_by_group[k].current_price>>
                 => /\ tracking_tokens_by_group'[j].current_mcap
                           = tracking_tokens_by_group'[k].current_mcap
                    /\ tracking_tokens_by_group'[j].current_price
                           = tracking_tokens_by_group'[k].current_price
          /\ \A d, e \in KeptActiveRowsOf(c) :
                 <<tokens'[d].current_mcap, tokens'[d].current_price>>
                     # <<tokens[d].current_mcap, tokens[d].current_price>>
                 => /\ tokens'[e].current_mcap = tokens'[d].current_mcap
                    /\ tokens'[e].current_price = tokens'[d].current_price]_vars

\* Two groups that held X at different market caps hold the reading of the
\* tick, both of them, in the cache and in the table.
UpdateAcrossGroupsIsAtomicWitness ==
    /\ "X" \in DOMAIN update_tasks
    /\ update_tasks["X"].stage = "True"
    /\ tick = 1
    /\ Cardinality(CachedRowsOf("X")) = 2
    /\ \E k, j \in CachedRowsOf("X") :
          tracking_tokens_by_group[k].initial_mcap # tracking_tokens_by_group[j].initial_mcap
    /\ \A k \in CachedRowsOf("X") :
          /\ tracking_tokens_by_group[k].current_mcap = update_tasks["X"].info.market_cap
          /\ tokens[<<k[2], k[1]>>].current_mcap = update_tasks["X"].info.market_cap

(* Alert history in the table. *)
\* The fired levels the table holds for a row.
PersistedHistory(t) == <<t.multipliers_alerted, t.loss_alerts_sent>>

\* C23: the alert history of the table is kept per group: an alert check of
\* the row of one group, whatever it fires, leaves the persisted fired
\* multipliers and fired losses of the rows of the other groups as they were.
HistoryIsolatedPerGroup ==
    [][\A k \in CheckedRows :
          \A d \in DOMAIN tokens :
              d[1] = k[2] /\ d[2] # k[1] =>
                  PersistedHistory(tokens'[d]) = PersistedHistory(tokens[d])]_vars

\* C24: a multiplier or loss level that was dispatched to a row is not
\* dispatched to it again, however many restarts and ticks lie between and
\* however many groups track the contract.
NoRefireAfterRestart ==
    [][\A k \in CheckedRows :
          /\ Levels(NewMessages(k, "multiplier")) \cap Levels(MessagesOf(k, "multiplier")) = {}
          /\ Levels(NewMessages(k, "loss")) \cap Levels(MessagesOf(k, "loss")) = {}]_vars

(* Startup. *)
\* A step that is the loading of start_tracking.
LoadStep == pc = "start" /\ pc' = "sleep"

\* The cache keys of the rows of the table that are active.
ActiveRowsAsCached == {<<d[2], d[1]>> : d \in {x \in DOMAIN tokens : tokens[x].is_active}}

\* C25: when the loading at startup is done the cache holds exactly the rows
\* that are active in the table, each under its own group with the values of
\* its own table row, and no inactive row.
CacheMirrorsActiveRows ==
    [][LoadStep =>
          /\ DOMAIN tracking_tokens_by_group' = ActiveRowsAsCached
          /\ \A k \in DOMAIN tracking_tokens_by_group' :
                 /\ tokens[<<k[2], k[1]>>].is_active
                 /\ TrackedValues(tracking_tokens_by_group'[k])
                        = TrackedValues(tokens[<<k[2], k[1]>>])
                 /\ tracking_tokens_by_group'[k].initial_mcap
                        = tokens[<<k[2], k[1]>>].initial_mcap]_vars

\* The bot has been started again over a table that holds a removed row and
\* an active one: the cache holds the active one only.
CacheMirrorsActiveRowsWitness ==
    /\ pc = "sleep"
    /\ wake_at = now
    /\ tick > 0
    /\ \E d \in DOMAIN tokens : ~tokens[d].is_active
    /\ tracking_tokens_by_group # <<>>
    /\ DOMAIN tracking_tokens_by_group = ActiveRowsAsCached

(* Registration. *)
\* A step that serves a call of add_token, and the call it serves.
AddTokenStep == Len(add_token_calls') = Len(add_token_calls) + 1
Served == add_token_calls'[Len(add_token_calls')]

\* C26: a call of add_token for a contract and chat whose row is active in
\* the table returns failure, receives no answer of the provider, and leaves
\* the table, the cache and the fired multipliers as they were.
DuplicateIsRejected ==
    [][(AddTokenStep /\ <<Served.contract_address, Served.chat_id>> \in ActiveKeys(tokens))
          => /\ ~Served.result
             /\ Served.answers = <<>>
             /\ tokens' = tokens
             /\ tracking_tokens_by_group' = tracking_tokens_by_group
             /\ sent_alerts' = sent_alerts]_vars

\* An answer of the provider that carries no market data: nothing, or a
\* market cap that is not positive.
NoMarketData(answer) == answer = NoData \/ answer.market_cap <= 0

\* A step in which add_token got no market data from the provider.
RegistrationFailed ==
    /\ AddTokenStep
    /\ Served.answers # <<>>
    /\ NoMarketData(Served.answers[Len(Served.answers)])

\* C27: a registration that fails for lack of market data returns failure and
\* adds no row to the table and none to the cache, and creates no entry of
\* fired multipliers, of cooldowns or of rug alerts.
FailedRegistrationAddsNothing ==
    [][RegistrationFailed
          => /\ ~Served.result
             /\ tokens' = tokens
             /\ tracking_tokens_by_group' = tracking_tokens_by_group
             /\ sent_alerts' = sent_alerts
             /\ last_alert_time' = last_alert_time
             /\ rug_alerts_sent' = rug_alerts_sent]_vars

FailedRegistrationAddsNothingWitness ==
    /\ Len(add_token_calls) = 2
    /\ \A i \in 1..2 : /\ add_token_calls[i].chat_id = "B"
                       /\ ~add_token_calls[i].result
    /\ add_token_calls[1].answers = <<NoData>>
    /\ add_token_calls[2].answers = <<TokenInfo(0, 0)>>
    /\ <<"Z", "B">> \notin DOMAIN tokens
    /\ <<"B", "Z">> \notin DOMAIN tracking_tokens_by_group
    /\ tick > 0

\* The rows a step registers: active after it and not before.
Registered == ActiveKeys(tokens') \ ActiveKeys(tokens)

\* A row as its registration writes it.
FreshRow(t) ==
    /\ t.confirmed_scan_mcap = t.initial_mcap
    /\ t.scan_confirmation_count = 1
    /\ t.current_mcap = t.initial_mcap
    /\ t.highest_mcap = t.initial_mcap
    /\ t.lowest_mcap = t.initial_mcap
    /\ t.multipliers_alerted = {}
    /\ t.loss_alerts_sent = <<>>

\* C28: a successful registration writes a row whose baseline, current,
\* highest and lowest market cap are the initial market cap, with a
\* confirmation count of 1 and nothing fired, and every tick that starts finds
\* the registered rows in the cache.
RegisteredRowIsFreshAndCached ==
    /\ [][\A k \in Registered : FreshRow(tokens'[k])]_vars
    /\ [][tick' = tick + 1
             => \A k \in ActiveKeys(tokens) :
                    <<k[2], k[1]>> \in DOMAIN tracking_tokens_by_group]_vars

RugCrossed(k) ==
    LET td == tracking_tokens_by_group[k]
    IN /\ Baseline(td) > 0
       /\ (td.current_mcap - Baseline(td)) * 100 <= RUG_DETECTION_THRESHOLD * Baseline(td)

DeliveryFailed == delivery_errors' # delivery_errors

\* C31: when the delivery of the alerts of a check fails, every level of the
\* check is recorded as fired and its family is put on cooldown, every level
\* the row has crossed and not fired goes out in the same check, the other
\* rows of the tick keep their checks, and no failed alert is handed to the
\* dispatcher a second time.
DeliveryErrorChangesNothing ==
    /\ [][DeliveryFailed =>
             \A k \in CheckedRows :
                /\ Levels(NewMessages(k, "multiplier")) \subseteq sent_alerts'[<<k[2], k[1]>>]
                /\ Levels(NewMessages(k, "loss"))
                       \subseteq Range(tracking_tokens_by_group'[k].loss_alerts_sent)
                /\ NewMessages(k, "rug") # {} => <<k[2], k[1]>> \in rug_alerts_sent'
                /\ \A f \in Families :
                       NewMessages(k, f) # {}
                           => /\ <<k[2], k[1], f>> \in DOMAIN last_alert_time'
                              /\ last_alert_time'[<<k[2], k[1], f>>] = now
                /\ ~OnCooldown(k, "multiplier")
                       => Levels(NewMessages(k, "multiplier"))
                              = CrossedMultipliers(k) \ FiredMultipliers(k)
                /\ ~OnCooldown(k, "loss")
                       => Levels(NewMessages(k, "loss")) = CrossedLosses(k) \ FiredLosses(k)
                /\ alert_tasks' = alert_tasks \ {k}]_vars
    /\ [](\A m \in delivery_errors :
             /\ CopiesIn(m, sent_messages) = 1
             /\ \A n \in Sent : (SameRowAndFamily(m, n) /\ m.level = n.level) => n = m)

\* Two levels of a row failed in one check, and the row was checked again in a
\* later tick, after the cooldown, still above both levels.
DeliveryErrorChangesNothingWitness ==
    \E m1 \in delivery_errors : \E m2 \in delivery_errors :
        LET k == <<m1.chat_id, m1.contract>>
        IN /\ SameRowAndFamily(m1, m2)
           /\ m1.family = "multiplier"
           /\ m1.tick = m2.tick
           /\ m1.level # m2.level
           /\ k \in DOMAIN tracking_tokens_by_group
           /\ k \in DOMAIN last_check
           /\ last_check[k].tick > m1.tick
           /\ last_check[k].multiplier_run
           /\ {m1.level, m2.level} \subseteq CrossedMultipliers(k)
           /\ now - m1.at >= ALERT_COOLDOWN

(* Configuration. *)
\* C32: the auto-remove loss floor lies below every configured loss level, so
\* a row that stands at a loss level is not yet at the floor.
LossFloorBelowEveryLossLevel ==
    /\ \A i \in DOMAIN LOSS_THRESHOLDS : AUTO_REMOVE_THRESHOLD < LOSS_THRESHOLDS[i]
    /\ \A k \in DOMAIN tokens : \A i \in DOMAIN LOSS_THRESHOLDS :
           (/\ tokens[k].is_active
            /\ StoreBaseline(tokens[k]) > 0
            /\ (tokens[k].current_mcap - StoreBaseline(tokens[k])) * 100
                   > LOSS_THRESHOLDS[i] * StoreBaseline(tokens[k]))
           => ~Rugged(tokens[k], AUTO_REMOVE_THRESHOLD)

(* Order of alerts and sweep. *)
\* C33: the sweep runs once in a tick, when every alert check of the tick has
\* returned: a row that gets its removal notice for loss was checked in this
\* tick, the loss levels it stands at went out before the notice when its loss
\* family ran, and so did its rug alert when it stands at the rug level.  A
\* tick starts only out of the sleep that follows a sweep.
SweepFollowsAlerts ==
    /\ [][SweepStep =>
             /\ alert_tasks = {}
             /\ \A k \in DOMAIN tracking_tokens_by_group :
                    (\E m \in NewNotices(k) : m.family = "auto_removal")
                    => /\ k \in DOMAIN last_check
                       /\ last_check[k].tick = tick
                       /\ last_check[k].loss_run
                              => CrossedLosses(k) \subseteq Levels(MessagesOf(k, "loss"))
                       /\ RugCrossed(k) => MessagesOf(k, "rug") # {}]_vars
    /\ [][tick' = tick + 1 => pc = "sleep"]_vars
    /\ [][(pc = "sleep" /\ pc' # "sleep") => tick' = tick + 1]_vars

\* A row got loss alerts, its rug alert and its removal notice in one tick.
SweepFollowsAlertsWitness ==
    \E m \in Sent : \E l \in Sent : \E r \in Sent :
        /\ m.family = "auto_removal" /\ l.family = "loss" /\ r.family = "rug"
        /\ m.chat_id = l.chat_id /\ m.contract = l.contract /\ m.tick = l.tick
        /\ m.chat_id = r.chat_id /\ m.contract = r.contract /\ m.tick = r.tick
        /\ l.level <= AUTO_REMOVE_THRESHOLD
        /\ ~tokens[<<m.contract, m.chat_id>>].is_active

(* The liquidity sweep. *)
\* The sweep of this step removes the row of table key d for liquidity.
RemovedForLiquidity(d) ==
    tokens'[d].user_notes = Append(tokens[d].user_notes, "liquidity")

\* C34: a sweep removes a row for liquidity exactly when the row is active
\* after the loss pass, its liquidity is below LIQUIDITY_FLOOR and its current
\* market cap is below SMALL_CAP_FLOOR; the row is inactive afterwards, and a
\* row at or above SMALL_CAP_FLOOR is never removed for liquidity.
LiquiditySweepIsExact ==
    [][SweepStep =>
          \A d \in DOMAIN tokens :
             /\ RemovedForLiquidity(d)
                    <=> /\ tokens[d].is_active
                        /\ ~Rugged(tokens[d], AUTO_REMOVE_THRESHOLD)
                        /\ tokens[d].liquidity_usd < LIQUIDITY_FLOOR
                        /\ tokens[d].current_mcap < SMALL_CAP_FLOOR
             /\ RemovedForLiquidity(d) => ~tokens'[d].is_active
             /\ tokens[d].current_mcap >= SMALL_CAP_FLOOR => ~RemovedForLiquidity(d)]_vars

\* A row without liquidity stayed through the sweep of a tick in which it
\* stood at 2000 and was removed for liquidity in a later tick.
LiquiditySweepIsExactWitness ==
    \E d \in DOMAIN tokens :
        /\ ~tokens[d].is_active
        /\ tokens[d].user_notes = <<"liquidity">>
        /\ tokens[d].liquidity_usd < LIQUIDITY_FLOOR
        /\ tokens[d].highest_mcap >= 2 * SMALL_CAP_FLOOR
        /\ tokens[d].current_mcap < SMALL_CAP_FLOOR

(***************************************************************************)
(* C35: while the tracker runs, an error in a tick (the provider gives no  *)
(* usable reading, or the store write raises) does not stop the loop:      *)
(* under fairness a later tick is started, and in it the contract whose    *)
(* update failed is fetched again as long as it is cached. The model's     *)
(* clock and tick counter are bounded, so the tick with the error is one   *)
(* with a tick and a clock step left.                                      *)
(***************************************************************************)
\* The update of c has returned False in tick t, with a tick and a step of
\* the clock to go.
UpdateFailedIn(c, t) ==
    /\ tick = t
    /\ pc = "update"
    /\ FetchFailed(c) \/ StoreWriteFailed(c)
    /\ now + Delay <= MaxTime

\* A tick after t is running and c, when still cached, has been fetched in it.
FetchedAgainAfter(c, t) ==
    /\ tick > t
    /\ c \in AllUniqueTokens => c \in DOMAIN update_tasks /\ api_calls[c] >= 1

FailedTickIsFollowedByRetry ==
    \A c \in Contracts : \A t \in 1..(MaxTicks - 1) :
        UpdateFailedIn(c, t) ~> FetchedAgainAfter(c, t)

\* X, still at its registration values after a first tick that gave nothing,
\* is fetched with an answer in the second tick.
FailedTickIsFollowedByRetryWitness ==
    /\ tick = 2
    /\ pc = "update"
    /\ <<"A", "X">> \in DOMAIN tracking_tokens_by_group
    /\ tracking_tokens_by_group[<<"A", "X">>].current_mcap = 500
    /\ 500 \notin MarketCaps
    /\ api_calls["X"] = 1
    /\ update_tasks["X"].stage = "writing"

(***************************************************************************)
(* C36: after a tick whose update of a contract succeeded, every cached    *)
(* row of the contract agrees with its active row in the table on          *)
(* current_mcap, highest_mcap and lowest_mcap and on the baseline, so that *)
(* the alert checks (cache baseline) and the sweep (table baseline) see    *)
(* the same loss.                                                          *)
(***************************************************************************)
\* The update task of c has returned True in the tick that is running.
UpdateSucceeded(c) ==
    /\ c \in DOMAIN update_tasks
    /\ update_tasks[c].stage = "True"

\* The loss in percent times the baseline, as the alert checks compute it
\* from a cached row and as the sweep computes it from a table row.
CacheLoss(td) == (td.current_mcap - Baseline(td)) * 100
StoreLoss(t) == (t.current_mcap - StoreBaseline(t)) * 100

CacheAgreesWithStore ==
    \A k \in DOMAIN tracking_tokens_by_group :
        LET d == <<k[2], k[1]>>
            td == tracking_tokens_by_group[k]
        IN (UpdateSucceeded(k[2]) /\ d \in DOMAIN tokens /\ tokens[d].is_active)
               => /\ td.current_mcap = tokens[d].current_mcap
                  /\ td.highest_mcap = tokens[d].highest_mcap
                  /\ td.lowest_mcap = tokens[d].lowest_mcap
                  /\ Baseline(td) = StoreBaseline(tokens[d])
                  /\ CacheLoss(td) * StoreBaseline(tokens[d])
                         = StoreLoss(tokens[d]) * Baseline(td)

(***************************************************************************)
(* C37: of two calls of add_token for the same contract and group that run *)
(* at the same time, at most one returns True, and the call that writes    *)
(* second does not replace the row the first one created.                  *)
(***************************************************************************)
\* Call j started while call i was awaiting the provider or the table, for
\* the same contract and group.
ConcurrentCalls(i, j) ==
    /\ i \in add_token_tasks[j].others
    /\ add_token_tasks[i].contract_address = add_token_tasks[j].contract_address
    /\ add_token_tasks[i].chat_id = add_token_tasks[j].chat_id

ConcurrentAddTokenCreatesOnce ==
    \A i, j \in DOMAIN add_token_tasks :
        ConcurrentCalls(i, j)
            => /\ ~(add_token_tasks[i].stage = "True" /\ add_token_tasks[j].stage = "True")
               /\ ~(add_token_tasks[i].stage = "True" /\ add_token_tasks[i].replaced)
               /\ ~(add_token_tasks[j].stage = "True" /\ add_token_tasks[j].replaced)

(***************************************************************************)
(* C38: after stop_tracking, unless start_tracking is called again, the    *)
(* tracking loop ends: a coroutine inside a tick finishes that tick, no    *)
(* coroutine starts a tick while the flag is down, and in the end every    *)
(* coroutine of start_tracking has returned.                               *)
(***************************************************************************)
\* Coroutine l enters _check_all_groups in this step.
TickStartedBy(l) == loops[l] # "check" /\ loops'[l] = "check"

\* A tick that is running goes on to its sweep and its sleep.
TickGoesOn(l) ==
    loops[l] \in {"check", "sweep"} => loops'[l] \in {loops[l], "sweep", "sleep"}

LoopEndsAfterStop ==
    /\ [][~is_running => \A l \in Loops : ~TickStartedBy(l) /\ TickGoesOn(l)]_vars
    /\ ~is_running ~> (is_running \/ ActiveLoops = {})

\* The tracker was stopped and its one loop has returned.
LoopEndsAfterStopWitness ==
    /\ ~is_running
    /\ loops[1] = "returned"
    /\ \A l \in Loops : l # 1 => loops[l] = "idle"

(***************************************************************************)
(* C39: registering a group that is already registered changes nothing:    *)
(* its row keeps its id, its settings, its creation time and its active    *)
(* flag, and is not deleted.                                               *)
(***************************************************************************)
RegisterGroupIsIdempotent ==
    [][\A chat_id \in DOMAIN groups :
          RegisterGroup(chat_id, groups[chat_id].chat_title)
              => /\ chat_id \in DOMAIN groups'
                 /\ groups'[chat_id].id = groups[chat_id].id
                 /\ groups'[chat_id].settings = groups[chat_id].settings
                 /\ groups'[chat_id].created_at = groups[chat_id].created_at
                 /\ groups'[chat_id].is_active = groups[chat_id].is_active]_vars

====
